---- MODULE Spec2Model ----
(***************************************************************************)
(* Verification model of the dynamic_flag library (src/src/dynamic_flag.c  *)
(* and src/include/dynamic_flag.h), asm-goto implementation style (2).     *)
(*                                                                         *)
(* State: the counter store `counts`, the machine code at every hook       *)
(* (`text`), the protection of the code pages (`prot`), the patch mutex    *)
(* (`patch_lock`), and the position of every thread inside a library call. *)
(*                                                                         *)
(* Strings are sequences of tokens: a flag name kind:name@file:line is     *)
(* <<kind, ":", name, "@", file, ":", line>>, and a regular expression is  *)
(* a sequence of literal tokens and the operators "^", "$", ".*"; "(" is   *)
(* an unbalanced parenthesis, which regcomp rejects.                       *)
(*                                                                         *)
(* uint64_t counters are integers; every value the model reaches is far    *)
(* below 2^64, and the comparisons of the code (> 0, == 0) are kept.       *)
(***************************************************************************)
EXTENDS Integers, Sequences, FiniteSets, TLC

(* ------------------------------------------------------------------ *)
(* Bounds of the model.                                                 *)
(* ------------------------------------------------------------------ *)

\* A call that would take an activation count above this is not issued.
MaxActivation == 2

\* A call that would take an unhook count above this is not issued.
MaxUnhook == 2

\* sysconf(_SC_PAGESIZE), scaled down so that hooks spread over pages.
PageSize == 8

\* The number of controller calls a recorded history holds.
MaxCalls == 4

\* How far from 0 and from UINT64_MAX the full-width counters go.
WideSpan == 4

\* The most records a listing of the table of names matches.
MaxSort == 3

\* The most records on a list handed to amortize on its own.
MaxBatch == 3

\* The highest hook address of such a list.
MaxHook == 28

(* ------------------------------------------------------------------ *)
(* Program constants.                                                   *)
(* ------------------------------------------------------------------ *)

HOOK_SIZE == 5

DYNAMIC_FLAG_VALUE_ACTIVE == 233

DYNAMIC_FLAG_VALUE_INACTIVE == 169

\* The immediate style (DYNAMIC_FLAG_IMPLEMENTATION_STYLE == 1): the hook is
\* a movb $imm8, and the values are the immediate 0xF4 and 0.
HOOK_SIZE_1 == 3

DYNAMIC_FLAG_VALUE_ACTIVE_1 == 244

DYNAMIC_FLAG_VALUE_INACTIVE_1 == 0

\* The largest uintptr_t of the model's machine word (31 bits, the widest TLC
\* computes with); first_page - 1 and last_page + 1 wrap around it as unsigned
\* arithmetic does.
UINTPTR_MAX == 2147483647

\* The threads of the program.
Threads == {"t1", "t2"}

\* The one thread that calls the library in a single-threaded program.
Callers == {"t1"}

NoThread == "none"

(* ------------------------------------------------------------------ *)
(* Flag use sites: the DF_* macros of dynamic_flag.h.                   *)
(* DYNAMIC_FLAG_IMPL(DEFAULT, INITIAL, FLIPPED, ...): DEFAULT is the    *)
(* opcode assembled at the hook, INITIAL the one written by the library *)
(* on startup; `negated` is the `!` the macro puts in front.            *)
(* ------------------------------------------------------------------ *)

DF_FEATURE ==
    [default |-> DYNAMIC_FLAG_VALUE_INACTIVE, initial |-> DYNAMIC_FLAG_VALUE_INACTIVE,
     flipped |-> 0, negated |-> FALSE]

DF_DEFAULT ==
    [default |-> DYNAMIC_FLAG_VALUE_INACTIVE, initial |-> DYNAMIC_FLAG_VALUE_INACTIVE,
     flipped |-> 1, negated |-> TRUE]

DF_DEFAULT_SLOW ==
    [default |-> DYNAMIC_FLAG_VALUE_ACTIVE, initial |-> DYNAMIC_FLAG_VALUE_ACTIVE,
     flipped |-> 0, negated |-> FALSE]

DF_OPT ==
    [default |-> DYNAMIC_FLAG_VALUE_ACTIVE, initial |-> DYNAMIC_FLAG_VALUE_INACTIVE,
     flipped |-> 0, negated |-> FALSE]

\* The use sites of the program, in the order of their records in the
\* dynamic_flag_list section.  Site 5 is a second expansion of site 2 (the
\* enclosing function was inlined twice): same name, its own hook.  Site 6 is
\* the library's own: the DYNAMIC_FLAG_DUMMY(none, "...") of dummy() in
\* dynamic_flag.c, a DF_FEATURE of kind none named dummy whose block is
\* empty; every program that links the library has it.
Sites ==
    << [macro |-> DF_OPT, kind |-> "test",
        name |-> <<"test", ":", "on", ":", "printf3", "@", "f.c", ":", "36">>,
        doc |-> <<>>, hook |-> 10, label |-> 15],
       [macro |-> DF_DEFAULT, kind |-> "on",
        name |-> <<"on", ":", "printf1", "@", "f.c", ":", "21">>,
        doc |-> <<"enabled", "initially">>, hook |-> 21, label |-> 30],
       [macro |-> DF_DEFAULT_SLOW, kind |-> "on",
        name |-> <<"on", ":", "printf2", "@", "f.c", ":", "27">>,
        doc |-> <<>>, hook |-> 33, label |-> 38],
       [macro |-> DF_FEATURE, kind |-> "feature_flag",
        name |-> <<"feature_flag", ":", "default_off", "@", "f.c", ":", "55">>,
        doc |-> <<"off", "initially">>, hook |-> 58, label |-> 70],
       [macro |-> DF_DEFAULT, kind |-> "on",
        name |-> <<"on", ":", "printf1", "@", "f.c", ":", "21">>,
        doc |-> <<"enabled", "initially">>, hook |-> 16, label |-> 9],
       [macro |-> DF_FEATURE, kind |-> "none",
        name |-> <<"none", ":", "dummy", "@", "dynamic_flag.c", ":", "156">>,
        doc |-> <<"This", " ", "dummy", " ", "flag", " ", "does", " ",
                  "nothing", ".", " ", "It", " ", "lets", " ", "the", " ",
                  "dynamic_flag", " ", "library", " ", "compile", " ",
                  "even", " ", "when", " ", "no", " ", "other", " ", "flag",
                  " ", "is", " ", "defined", ".">>,
        hook |-> 66, label |-> 71] >>

\* __stop_dynamic_flag_list - __start_dynamic_flag_list
NRecords == Len(Sites)

RecordIds == 1 .. NRecords

\* struct patch_record of site i, as the asm block of DYNAMIC_FLAG_IMPL_ emits it.
patch_record(i) ==
    [hook |-> Sites[i].hook,
     destination |-> Sites[i].label,
     name_doc |-> Sites[i].name,
     initial_opcode |-> Sites[i].macro.initial,
     flipped |-> Sites[i].macro.flipped]

Kinds == {Sites[i].kind : i \in RecordIds}

\* The dynamic_flag_KIND_list section: the records of one kind, in link order.
dynamic_flag_kind_list(kind) ==
    SelectSeq([i \in RecordIds |-> i], LAMBDA i : Sites[i].kind = kind)

\* The bytes assembled at site i: ".byte DEFAULT; .long label - (1b + 5)".
AssembledText(i) ==
    [opcode |-> Sites[i].macro.default,
     rel32 |-> Sites[i].label - (Sites[i].hook + 5)]

\* The code pages of the program: page 0 up to the page after the last hook.
Pages == 0 .. ((Sites[6].hook + HOOK_SIZE) \div PageSize + 1)

(* ------------------------------------------------------------------ *)
(* Regular expressions: compile_regex, and the regcomp / regexec it    *)
(* calls, over token strings.                                           *)
(* ------------------------------------------------------------------ *)

\* A nullable `const char *pattern`.
NullPattern == [null |-> TRUE, s |-> <<>>]

Pat(s) == [null |-> FALSE, s |-> s]

\* regcomp(REG_EXTENDED | REG_NOSUB): 0 on success, non-zero (REG_EPAREN)
\* on an unbalanced parenthesis.
regcomp(s) ==
    IF \E k \in 1 .. Len(s) : s[k] = "(" THEN 8 ELSE 0

RECURSIVE MatchAt(_, _, _)
\* Does program p match str starting at position pos?
MatchAt(p, str, pos) ==
    IF p = <<>> THEN TRUE
    ELSE LET h == Head(p)
             rest == Tail(p)
         IN  CASE h = "^" -> pos = 1 /\ MatchAt(rest, str, pos)
               [] h = "$" -> pos = Len(str) + 1 /\ MatchAt(rest, str, pos)
               [] h = ".*" -> \E k \in pos .. Len(str) + 1 : MatchAt(rest, str, k)
               [] OTHER -> pos <= Len(str) /\ str[pos] = h /\ MatchAt(rest, str, pos + 1)

RECURSIVE Alternatives(_)
\* The branches of an extended regular expression: "|" binds weaker than
\* concatenation and than the anchors, so each branch carries its own.
Alternatives(p) ==
    IF \E k \in 1 .. Len(p) : p[k] = "|"
    THEN LET k == CHOOSE k \in 1 .. Len(p) : p[k] = "|" /\ \A m \in 1 .. k - 1 : p[m] # "|"
         IN  {SubSeq(p, 1, k - 1)} \cup Alternatives(SubSeq(p, k + 1, Len(p)))
    ELSE {p}

\* regexec(..., 0, NULL, 0) != REG_NOMATCH: a branch of the program matches
\* somewhere in str.
regexec(p, str) ==
    \E alt \in Alternatives(p), start \in 1 .. Len(str) + 1 : MatchAt(alt, str, start)

\* compile_regex: a pattern that is not NULL is prefixed with "^" unless it
\* starts with one.  Returns the return code r and the compiled program.  A
\* NULL pattern is handed to regcomp as it is, which is undefined: the call
\* has no return code and no program of its own (`undefined`), and the entry
\* point that made it takes one of RegcompNullOutcomes.
compile_regex(pattern) ==
    IF pattern.null
    THEN [r |-> 0, prog |-> <<>>, undefined |-> TRUE]
    ELSE LET s == IF Len(pattern.s) > 0 /\ pattern.s[1] = "^"
                  THEN pattern.s
                  ELSE <<"^">> \o pattern.s
         IN  [r |-> regcomp(s), prog |-> s, undefined |-> FALSE]

\* What regcomp(regex, NULL, ...) does to its caller: it reads through the
\* null pointer and the process dies, or it rejects the pattern with a
\* non-zero code.
RegcompNullOutcomes == {"fault", "error"}

(* ------------------------------------------------------------------ *)
(* Record finder.                                                       *)
(* ------------------------------------------------------------------ *)

\* A finder loop that stops at the first record it pushes.
FindLoop_first_match(from, k, prog, matchAll) ==
    LET hits == {j \in k .. Len(from) :
                    matchAll \/ regexec(prog, patch_record(from[j]).name_doc)}
    IN  IF hits = {} THEN <<>>
        ELSE <<from[CHOOSE j \in hits : \A h \in hits : j <= h]>>

RECURSIVE FindLoop(_, _, _, _)
\* The loop of find_records / find_records_kind over the candidate list
\* `from`: every candidate whose name matches is pushed, in order.
FindLoop(from, k, prog, matchAll) ==
    IF k > Len(from) THEN <<>>
    ELSE (IF matchAll \/ regexec(prog, patch_record(from[k]).name_doc)
          THEN <<from[k]>> ELSE <<>>)
         \o FindLoop(from, k + 1, prog, matchAll)

\* A find_records that reports success, with an empty list, when the
\* pattern does not compile.
find_records_swallows(pattern) ==
    LET c == compile_regex(pattern)
    IN  [r |-> 0,
         acc |-> IF c.r # 0 THEN <<>>
                 ELSE FindLoop([i \in RecordIds |-> i], 1, c.prog, FALSE),
         undefined |-> c.undefined]

\* find_records(pattern, acc): [r, acc], and whether the call went through
\* the undefined regcomp.
find_records(pattern) ==
    LET c == compile_regex(pattern)
    IN  IF c.undefined THEN [r |-> 0, acc |-> <<>>, undefined |-> TRUE]
        ELSE IF c.r # 0 THEN [r |-> -1, acc |-> <<>>, undefined |-> FALSE]
        ELSE [r |-> 0,
              acc |-> FindLoop([i \in RecordIds |-> i], 1, c.prog, FALSE),
              undefined |-> FALSE]

\* A find_records_kind that walks the whole table instead of the kind's
\* sub-table.
find_records_kind_whole_table(kind, pattern) ==
    LET c == compile_regex(pattern)
    IN  IF ~pattern.null /\ c.r # 0 THEN [r |-> -1, acc |-> <<>>, undefined |-> FALSE]
        ELSE [r |-> 0,
              acc |-> FindLoop([i \in RecordIds |-> i], 1, c.prog, pattern.null),
              undefined |-> FALSE]

\* find_records_kind(start, end, pattern, acc): [r, acc].  A NULL pattern is
\* never compiled: every record of the kind is pushed.
find_records_kind(kind, pattern) ==
    LET c == compile_regex(pattern)
    IN  IF ~pattern.null /\ c.r # 0 THEN [r |-> -1, acc |-> <<>>, undefined |-> FALSE]
        ELSE [r |-> 0,
              acc |-> FindLoop(dynamic_flag_kind_list(kind), 1, c.prog, pattern.null),
              undefined |-> FALSE]

\* cmp_patches: order by hook address.
cmp_patches(a, b) ==
    IF patch_record(a).hook = patch_record(b).hook THEN 0
    ELSE IF patch_record(a).hook < patch_record(b).hook THEN -1 ELSE 1

RECURSIVE InsertSorted(_, _)
InsertSorted(x, sorted) ==
    IF sorted = <<>> THEN <<x>>
    ELSE IF cmp_patches(x, Head(sorted)) < 0 THEN <<x>> \o sorted
    ELSE <<Head(sorted)>> \o InsertSorted(x, Tail(sorted))

RECURSIVE qsort_patches(_)
\* qsort(list, ..., cmp_patches)
qsort_patches(list) ==
    IF list = <<>> THEN <<>>
    ELSE InsertSorted(Head(list), qsort_patches(Tail(list)))

(* ------------------------------------------------------------------ *)
(* C strings: the characters of the names and docstrings, and the        *)
(* <string.h> / <stdlib.h> functions cmp_patches_alpha calls on them.    *)
(* ------------------------------------------------------------------ *)

\* The characters (ASCII codes) of each token the names and docstrings are
\* made of.
Ascii ==
    "test" :> <<116, 101, 115, 116>> @@
    ":" :> <<58>> @@
    "on" :> <<111, 110>> @@
    "printf3" :> <<112, 114, 105, 110, 116, 102, 51>> @@
    "@" :> <<64>> @@
    "f.c" :> <<102, 46, 99>> @@
    "36" :> <<51, 54>> @@
    "printf1" :> <<112, 114, 105, 110, 116, 102, 49>> @@
    "21" :> <<50, 49>> @@
    "printf2" :> <<112, 114, 105, 110, 116, 102, 50>> @@
    "27" :> <<50, 55>> @@
    "feature_flag" :> <<102, 101, 97, 116, 117, 114, 101, 95, 102, 108, 97, 103>> @@
    "default_off" :> <<100, 101, 102, 97, 117, 108, 116, 95, 111, 102, 102>> @@
    "55" :> <<53, 53>> @@
    "enabled" :> <<101, 110, 97, 98, 108, 101, 100>> @@
    "initially" :> <<105, 110, 105, 116, 105, 97, 108, 108, 121>> @@
    "off" :> <<111, 102, 102>> @@
    "9" :> <<57>> @@
    "100" :> <<49, 48, 48>> @@
    "f.c.in" :> <<102, 46, 99, 46, 105, 110>> @@
    "none" :> <<110, 111, 110, 101>> @@
    "dummy" :> <<100, 117, 109, 109, 121>> @@
    "dynamic_flag.c" :> <<100, 121, 110, 97, 109, 105, 99, 95, 102, 108, 97, 103, 46, 99>> @@
    "156" :> <<49, 53, 54>> @@
    "does" :> <<100, 111, 101, 115>> @@
    "nothing" :> <<110, 111, 116, 104, 105, 110, 103>> @@
    "This" :> <<84, 104, 105, 115>> @@
    " " :> <<32>> @@
    "flag" :> <<102, 108, 97, 103>> @@
    "." :> <<46>> @@
    "It" :> <<73, 116>> @@
    "lets" :> <<108, 101, 116, 115>> @@
    "the" :> <<116, 104, 101>> @@
    "dynamic_flag" :> <<100, 121, 110, 97, 109, 105, 99, 95, 102, 108, 97, 103>> @@
    "library" :> <<108, 105, 98, 114, 97, 114, 121>> @@
    "compile" :> <<99, 111, 109, 112, 105, 108, 101>> @@
    "even" :> <<101, 118, 101, 110>> @@
    "when" :> <<119, 104, 101, 110>> @@
    "no" :> <<110, 111>> @@
    "other" :> <<111, 116, 104, 101, 114>> @@
    "is" :> <<105, 115>> @@
    "defined" :> <<100, 101, 102, 105, 110, 101, 100>>

RECURSIVE CString(_)
\* The characters of a token string, without the terminating NUL.
CString(tokens) ==
    IF tokens = <<>> THEN <<>> ELSE Ascii[Head(tokens)] \o CString(Tail(tokens))

\* The character at index k (from 1) of a C string; 0 is the NUL at its end.
CharAt(s, k) == IF k <= Len(s) THEN s[k] ELSE 0

RECURSIVE strncmp_from(_, _, _, _)
strncmp_from(a, b, k, n) ==
    IF k > n THEN 0
    ELSE IF CharAt(a, k) # CharAt(b, k)
         THEN (IF CharAt(a, k) < CharAt(b, k) THEN -1 ELSE 1)
         ELSE IF CharAt(a, k) = 0 THEN 0
              ELSE strncmp_from(a, b, k + 1, n)

\* strncmp(a, b, n): the sign of the first difference in the first n characters.
strncmp(a, b, n) == strncmp_from(a, b, 1, n)

\* strcmp(a, b): the sign of the first difference.
strcmp(a, b) == strncmp_from(a, b, 1, Len(a) + Len(b) + 1)

\* strrchr(s, c) - s + 1: the index of the last c in s; 0 stands for NULL.
strrchr(s, c) ==
    IF \E k \in 1 .. Len(s) : s[k] = c
    THEN CHOOSE k \in 1 .. Len(s) : s[k] = c /\ \A m \in (k + 1) .. Len(s) : s[m] # c
    ELSE 0

RECURSIVE strtoull_from(_, _, _)
strtoull_from(s, k, acc) ==
    IF CharAt(s, k) \in 48 .. 57
    THEN strtoull_from(s, k + 1, acc * 10 + (CharAt(s, k) - 48))
    ELSE acc

\* A strtoull that stops after the first digit.
strtoull_first_digit(s, k) ==
    IF CharAt(s, k) \in 48 .. 57 THEN CharAt(s, k) - 48 ELSE 0

\* strtoull(s + k - 1, NULL, 10): the decimal number that starts at index k.
strtoull(s, k) == strtoull_from(s, k, 0)

\* A comparator under which all records are equal.
cmp_patches_alpha_all_equal(a, b) == 0

\* The strings of record i that cmp_patches_alpha and the listing read:
\* name_doc up to its NUL, and the docstring after it.
NameDoc(i) == [name_doc |-> patch_record(i).name_doc, doc |-> Sites[i].doc]

\* cmp_patches_alpha on the records a and b: by the name up to its last
\* colon, then the longer docstring first, then by line number.
cmp_patches_alpha(a, b) ==
    LET a_name == CString(a.name_doc)
        b_name == CString(b.name_doc)
        a_colon == strrchr(a_name, 58)
        b_colon == strrchr(b_name, 58)
        colon_idx == a_colon - 1
        a_doc == CString(a.doc)
        b_doc == CString(b.doc)
        a_line == strtoull(a_name, a_colon + 1)
        b_line == strtoull(b_name, b_colon + 1)
    IN  IF a_colon = 0 \/ b_colon = 0 \/ colon_idx # b_colon - 1
        THEN strcmp(a_name, b_name)
        ELSE IF strncmp(a_name, b_name, colon_idx) # 0
        THEN strncmp(a_name, b_name, colon_idx)
        ELSE IF (CharAt(a_doc, 1) # 0 \/ CharAt(b_doc, 1) # 0) /\ CharAt(a_doc, 1) = 0
        THEN 1
        ELSE IF (CharAt(a_doc, 1) # 0 \/ CharAt(b_doc, 1) # 0) /\ CharAt(b_doc, 1) = 0
        THEN -1
        ELSE IF (CharAt(a_doc, 1) # 0 \/ CharAt(b_doc, 1) # 0) /\ Len(a_doc) # Len(b_doc)
        THEN (IF Len(a_doc) > Len(b_doc) THEN -1 ELSE 1)
        ELSE IF a_line # b_line
        THEN (IF a_line < b_line THEN -1 ELSE 1)
        ELSE 0

\* The strings of every record of the program, by record index.
NameDocs == [i \in RecordIds |-> NameDoc(i)] @@ <<>>

\* qsort(acc->data, acc->size, ..., cmp_patches_alpha), for a list acc of
\* indexes into the record table rec: the orders of acc that are sorted
\* under the comparator.  qsort is not stable, so records that compare equal
\* come out in either order.
qsort_alpha(acc, rec) ==
    LET n == Len(acc)
        perms == {f \in [1 .. n -> 1 .. n] : \A a, b \in 1 .. n : a # b => f[a] # f[b]}
        sorted == {g \in perms : \A k \in 1 .. n - 1 :
                       cmp_patches_alpha(rec[acc[g[k]]], rec[acc[g[k + 1]]]) <= 0}
    IN  {[k \in 1 .. n |-> acc[g[k]]] : g \in sorted}

\* The `duplicate` member for entry i (from 1) of the sorted list acc: set
\* when the entry before it has the same name.
Duplicate(acc, i, rec) ==
    i > 1 /\ strcmp(CString(rec[acc[i - 1]].name_doc), CString(rec[acc[i]].name_doc)) = 0

(* ------------------------------------------------------------------ *)
(* uint64_t: the type of the two counters of struct patch_count, as     *)
(* four 16-bit limbs, most significant first.                           *)
(* ------------------------------------------------------------------ *)

\* The largest limb: 2^16 - 1.
LimbMax == 65535

U64(n) == <<0, 0, 0, n>>

UINT64_MAX == <<LimbMax, LimbMax, LimbMax, LimbMax>>

\* x + 1 on a uint64_t: UINT64_MAX + 1 is 0.
U64Inc(x) ==
    IF x[4] < LimbMax THEN [x EXCEPT ![4] = @ + 1]
    ELSE IF x[3] < LimbMax THEN [x EXCEPT ![4] = 0, ![3] = @ + 1]
    ELSE IF x[2] < LimbMax THEN [x EXCEPT ![4] = 0, ![3] = 0, ![2] = @ + 1]
    ELSE IF x[1] < LimbMax THEN [x EXCEPT ![4] = 0, ![3] = 0, ![2] = 0, ![1] = @ + 1]
    ELSE U64(0)

\* x - 1 on a uint64_t: 0 - 1 is UINT64_MAX.
U64Dec(x) ==
    IF x[4] > 0 THEN [x EXCEPT ![4] = @ - 1]
    ELSE IF x[3] > 0 THEN [x EXCEPT ![4] = LimbMax, ![3] = @ - 1]
    ELSE IF x[2] > 0 THEN [x EXCEPT ![4] = LimbMax, ![3] = LimbMax, ![2] = @ - 1]
    ELSE IF x[1] > 0
    THEN [x EXCEPT ![4] = LimbMax, ![3] = LimbMax, ![2] = LimbMax, ![1] = @ - 1]
    ELSE UINT64_MAX

\* The uint64_t values within WideSpan of 0 or of UINT64_MAX.
U64Near ==
    {U64(n) : n \in 0 .. WideSpan}
    \cup {<<LimbMax, LimbMax, LimbMax, LimbMax - n>> : n \in 0 .. WideSpan}

(* ------------------------------------------------------------------ *)
(* State.                                                               *)
(* ------------------------------------------------------------------ *)

VARIABLES
    counts,      \* the counter store: data (<<>> is NULL) and size
    text,        \* the instruction at each record's hook: opcode byte and rel32 operand
    prot,        \* protection of every code page: "rx" or "rwx"
    patch_lock,  \* owner of the mutex, or NoThread
    pc,          \* where each thread is: "idle", "ctl" (in a controller call,
                 \* before lock()), "locked" (between lock() and unlock()),
                 \* "list" (in the loop of dynamic_flag_list_state)
    ret,         \* the return of the step just taken: the thread and the value
    job,         \* the work of the thread that holds patch_lock: its phase
                 \* ("alloc": the stores of lock() to the counter store,
                 \* "init": the amortize run of init_all, "count": the
                 \* counter loop, "patch": the amortize run of the call)
    status,      \* "running", or "aborted" after a failed assert or a fault
    hist,        \* history variable: the calls each record has been matched by
    wide,        \* the counters of one record at their full 64-bit width
    lst,         \* the dynamic_flag_list_state call in progress
    srt,         \* a listing of a table of names: the list, the loop index, the output
    amz,         \* one amortize call on a list of hooks laid out over pages
    movb         \* the bytes at one hook of a build in the immediate style

vars == <<counts, text, prot, patch_lock, pc, ret, job, status, hist, wide, lst, srt, amz, movb>>

\* No thread holds the lock.  In a job, k counts the iterations the counter
\* loop has made, `before` is the counter table as the loop found it, and
\* `pending` are the stores to the counter store lock() has yet to make.
NoJob ==
    [phase |-> "none", cb |-> "none", sched |-> <<>>, fn |-> "none", acc |-> <<>>,
     void |-> TRUE, r |-> 0, k |-> 0, before |-> <<>>, pending |-> {}]

\* No call returned in the step just taken.
NoRet == [t |-> NoThread, v |-> 0]

\* A counter of the entry at hand that the listing has not loaded yet.
NotLoaded == -1

\* No dynamic_flag_list_state call is in progress.  In a listing, `alone`
\* is a history of the call: no other thread has been inside a library call
\* since it was entered.
NoList ==
    [t |-> NoThread, acc |-> <<>>, i |-> 0, out |-> <<>>,
     activation |-> NotLoaded, unhook |-> NotLoaded, alone |-> TRUE]

\* The listing in progress, once thread t is inside a library call.
Overlap(t) ==
    IF lst.t \notin {NoThread, t} THEN [lst EXCEPT !.alone = FALSE] ELSE lst

\* No table of names is being listed.
NoSort == [phase |-> "none", acc |-> <<>>, i |-> 0, out |-> <<>>]

\* The build is not in the immediate style.
NoMovb == <<>>

\* No amortize call on a layout of hooks is followed.
NoAmortize ==
    [phase |-> "none", hooks |-> <<>>, sched |-> <<>>, trace |-> <<>>,
     prot |-> <<>>, covered |-> TRUE]

\* The full-width counters are not followed.
NoWide == [rec |-> 0, activation |-> U64(0), unhook |-> U64(0)]

\* The history of a record: the activate calls (na), deactivate calls (nd) and
\* unhook calls (nu) that matched it, the deactivate calls since the last
\* activate call that matched it (dr), and the rehook calls since the last
\* unhook call that matched it (rr).
NoHistory == [na |-> 0, nd |-> 0, dr |-> 0, nu |-> 0, rr |-> 0]

\* The history after one more call of fn on the list acc.  Nothing is
\* recorded unless the history is switched on.
HistUpdate(h, fn, acc) ==
    IF ~h.on THEN h
    ELSE [on |-> TRUE,
          n |-> h.n + 1,
          rec |-> [i \in RecordIds |->
                     IF \E k \in 1 .. Len(acc) : acc[k] = i
                     THEN CASE fn = "activate_all" ->
                                  [h.rec[i] EXCEPT !.na = @ + 1, !.dr = 0]
                            [] fn = "deactivate_all" ->
                                  [h.rec[i] EXCEPT !.nd = @ + 1, !.dr = @ + 1]
                            [] fn = "unhook_all" ->
                                  [h.rec[i] EXCEPT !.nu = @ + 1, !.rr = 0]
                            [] fn = "rehook_all" ->
                                  [h.rec[i] EXCEPT !.rr = @ + 1]
                            [] OTHER -> h.rec[i]
                     ELSE h.rec[i]]]

InitProgram ==
    /\ counts = [data |-> <<>>, size |-> 0]
    /\ text = [i \in RecordIds |-> AssembledText(i)]
    /\ prot = [p \in Pages |-> "rx"]
    /\ patch_lock = NoThread
    /\ pc = [t \in Threads |-> "idle"]
    /\ ret = NoRet
    /\ job = NoJob
    /\ status = "running"

Init ==
    /\ InitProgram
    /\ hist = [on |-> FALSE, n |-> 0, rec |-> [i \in RecordIds |-> NoHistory]]
    /\ wide = NoWide
    /\ lst = NoList
    /\ srt = NoSort
    /\ amz = NoAmortize
    /\ movb = NoMovb

\* The same program, with the history of its calls recorded.
InitHist ==
    /\ InitProgram
    /\ hist = [on |-> TRUE, n |-> 0, rec |-> [i \in RecordIds |-> NoHistory]]
    /\ wide = NoWide
    /\ lst = NoList
    /\ srt = NoSort
    /\ amz = NoAmortize
    /\ movb = NoMovb

(* ------------------------------------------------------------------ *)
(* Use-site evaluation.                                                 *)
(* ------------------------------------------------------------------ *)

\* DYNAMIC_FLAG_IMPL_: r = 1 iff the instruction at the hook jumps to the label.
DYNAMIC_FLAG_IMPL(i, txt) == txt[i].opcode = DYNAMIC_FLAG_VALUE_ACTIVE

\* The value of the DF_* expression at site i.
Evaluate(i, txt) ==
    IF Sites[i].macro.negated THEN ~DYNAMIC_FLAG_IMPL(i, txt) ELSE DYNAMIC_FLAG_IMPL(i, txt)

(* ------------------------------------------------------------------ *)
(* Patch engine.                                                        *)
(* ------------------------------------------------------------------ *)

\* The two asserts of patch / unpatch: the opcode is jmp rel32 or testl, and
\* the operand is the distance from the end of the instruction to destination.
PatchAsserts(i, txt) ==
    /\ txt[i].opcode = 233 \/ txt[i].opcode = 169
    /\ patch_record(i).destination - (patch_record(i).hook + 5) = txt[i].rel32

\* A patch that writes the opcode of the short jump, 0xeb.
patch_short_jmp(i, txt) ==
    [ok |-> PatchAsserts(i, txt),
     text |-> [txt EXCEPT ![i].opcode = 235]]

\* A patch that checks the instruction and leaves it as it is.
patch_nostore(i, txt) ==
    [ok |-> PatchAsserts(i, txt), text |-> txt]

\* A patch that stores the whole instruction, operand included.
patch_whole_instruction(i, txt) ==
    [ok |-> PatchAsserts(i, txt),
     text |-> [txt EXCEPT ![i] = [opcode |-> 233, rel32 |-> 0]]]

\* patch: *address = 0xe9
patch(i, txt) ==
    [ok |-> PatchAsserts(i, txt),
     text |-> [txt EXCEPT ![i].opcode = 233]]

\* An unpatch that checks the instruction and leaves it as it is.
unpatch_nostore(i, txt) ==
    [ok |-> PatchAsserts(i, txt), text |-> txt]

\* unpatch: *address = 0xa9
unpatch(i, txt) ==
    [ok |-> PatchAsserts(i, txt),
     text |-> [txt EXCEPT ![i].opcode = 169]]

\* A default_patch that takes the count from the opcode alone, whatever
\* `flipped` says.
default_patch_unflipped(i, data, txt) ==
    LET record == patch_record(i)
    IN  IF ~(i - 1 < Len(data)) THEN [ok |-> FALSE, data |-> data, text |-> txt]
        ELSE CASE record.initial_opcode = DYNAMIC_FLAG_VALUE_ACTIVE ->
                    LET p == patch(i, txt)
                    IN  [ok |-> p.ok,
                         data |-> [data EXCEPT ![i].activation = 1],
                         text |-> p.text]
               [] record.initial_opcode = DYNAMIC_FLAG_VALUE_INACTIVE ->
                    LET p == unpatch(i, txt)
                    IN  [ok |-> p.ok,
                         data |-> [data EXCEPT ![i].activation = 0],
                         text |-> p.text]
               [] OTHER -> [ok |-> FALSE, data |-> data, text |-> txt]

\* default_patch: [ok, data, text]
default_patch(i, data, txt) ==
    LET record == patch_record(i)
    IN  IF ~(i - 1 < Len(data)) THEN [ok |-> FALSE, data |-> data, text |-> txt]
        ELSE CASE record.initial_opcode = DYNAMIC_FLAG_VALUE_ACTIVE ->
                    LET p == patch(i, txt)
                    IN  [ok |-> p.ok,
                         data |-> [data EXCEPT ![i].activation =
                                       IF record.flipped # 0 THEN 0 ELSE 1],
                         text |-> p.text]
               [] record.initial_opcode = DYNAMIC_FLAG_VALUE_INACTIVE ->
                    LET p == unpatch(i, txt)
                    IN  [ok |-> p.ok,
                         data |-> [data EXCEPT ![i].activation =
                                       IF record.flipped # 0 THEN 1 ELSE 0],
                         text |-> p.text]
               [] OTHER -> [ok |-> FALSE, data |-> data, text |-> txt]

\* An activate that always writes the jmp, whatever `flipped` says.
activate_unflipped(i, data, txt) ==
    LET p == patch(i, txt)
    IN  [ok |-> p.ok, data |-> data, text |-> p.text]

\* activate: [ok, data, text]
activate(i, data, txt) ==
    LET p == IF patch_record(i).flipped # 0 THEN unpatch(i, txt) ELSE patch(i, txt)
    IN  [ok |-> p.ok, data |-> data, text |-> p.text]

\* A deactivate that always writes the testl, whatever `flipped` says.
deactivate_unflipped(i, data, txt) ==
    LET p == unpatch(i, txt)
    IN  [ok |-> p.ok, data |-> data, text |-> p.text]

\* deactivate: [ok, data, text]
deactivate(i, data, txt) ==
    LET p == IF patch_record(i).flipped # 0 THEN patch(i, txt) ELSE unpatch(i, txt)
    IN  [ok |-> p.ok, data |-> data, text |-> p.text]

\* A callback that rewrites, with its own record, every instruction the
\* counters say the batch has to flip: the batch in one store.
ApplyCb_whole_batch(cb, i, data, txt) ==
    LET r == CASE cb = "default_patch" -> default_patch(i, data, txt)
               [] cb = "activate" -> activate(i, data, txt)
               [] cb = "deactivate" -> deactivate(i, data, txt)
    IN  [r EXCEPT !.text =
            [j \in RecordIds |->
                IF cb = "activate" /\ data[j].activation > 0
                THEN activate(j, data, txt).text[j]
                ELSE IF cb = "deactivate" /\ data[j].activation = 0
                THEN deactivate(j, data, txt).text[j]
                ELSE r.text[j]]]

\* The callback amortize was given, applied to one record.
ApplyCb(cb, i, data, txt) ==
    CASE cb = "default_patch" -> default_patch(i, data, txt)
      [] cb = "activate" -> activate(i, data, txt)
      [] cb = "deactivate" -> deactivate(i, data, txt)

\* Unsigned x - 1 and x + 1.
UDec(x) == IF x = 0 THEN UINTPTR_MAX ELSE x - 1

UInc(x) == IF x = UINTPTR_MAX THEN 0 ELSE x + 1

\* An mprotect of the first page of the range alone.
MprotectEvent_first_page_only(first_page, last_page, p) ==
    [ev |-> p, a |-> first_page * PageSize, b |-> PageSize]

\* mprotect((void *)(first_page * page_size),
\*          (1 + last_page - first_page) * page_size, p)
MprotectEvent(first_page, last_page, p) ==
    [ev |-> p, a |-> first_page * PageSize, b |-> (1 + last_page - first_page) * PageSize]

CbEvent(i) == [ev |-> "cb", a |-> i, b |-> 0]

\* A PATCH() without the second mprotect.
PATCH_no_restore(records, section_begin, i, first_page, last_page) ==
    IF section_begin < i
    THEN <<[ev |-> "rwx", a |-> first_page * PageSize,
            b |-> (1 + last_page - first_page) * PageSize]>>
         \o [j \in 1 .. (i - section_begin) |->
                [ev |-> "cb", a |-> records[section_begin + j], b |-> 0]]
    ELSE <<>>

\* A PATCH() whose loop starts after the first record of the section.
PATCH_skips_first(records, section_begin, i, first_page, last_page) ==
    IF section_begin < i
    THEN <<[ev |-> "rwx", a |-> first_page * PageSize,
            b |-> (1 + last_page - first_page) * PageSize]>>
         \o [j \in 1 .. (i - section_begin - 1) |->
                [ev |-> "cb", a |-> records[section_begin + 1 + j], b |-> 0]]
         \o <<[ev |-> "rx", a |-> first_page * PageSize,
               b |-> (1 + last_page - first_page) * PageSize]>>
    ELSE <<>>

\* A PATCH() whose loop starts at the head of the list, not of the section.
PATCH_from_list_head(records, section_begin, i, first_page, last_page) ==
    IF section_begin < i
    THEN <<[ev |-> "rwx", a |-> first_page * PageSize,
            b |-> (1 + last_page - first_page) * PageSize]>>
         \o [j \in 1 .. i |-> [ev |-> "cb", a |-> records[j], b |-> 0]]
         \o <<[ev |-> "rx", a |-> first_page * PageSize,
               b |-> (1 + last_page - first_page) * PageSize]>>
    ELSE <<>>

\* The PATCH() macro of amortize for the section records[section_begin .. i - 1]
\* (0-based): mprotect rwx, the callbacks, mprotect rx.
PATCH(records, section_begin, i, first_page, last_page) ==
    IF section_begin < i
    THEN <<MprotectEvent(first_page, last_page, "rwx")>>
         \o [j \in 1 .. (i - section_begin) |-> CbEvent(records[section_begin + j])]
         \o <<MprotectEvent(first_page, last_page, "rx")>>
    ELSE <<>>

RECURSIVE AmortizeLoop(_, _, _, _, _, _, _)
\* The for loop of amortize (i is 0-based), then the final PATCH().  `hooks`
\* gives record->hook for every record of the list.
AmortizeLoop(hooks, records, i, first_page, last_page, section_begin, out) ==
    IF ~(i < Len(records))
    THEN out \o PATCH(records, section_begin, i, first_page, last_page)
    ELSE LET hook == hooks[records[i + 1]]
             begin_page == hook \div PageSize
             end_page == (hook + HOOK_SIZE - 1) \div PageSize
         IN  IF UDec(first_page) <= begin_page \/ end_page <= UInc(last_page)
             THEN AmortizeLoop(hooks, records, i + 1,
                      IF begin_page < first_page THEN begin_page ELSE first_page,
                      IF end_page > last_page THEN end_page ELSE last_page,
                      section_begin, out)
             ELSE AmortizeLoop(hooks, records, i + 1, begin_page, end_page, i,
                      out \o PATCH(records, section_begin, i, first_page, last_page))

\* amortize on a list of records whose hooks are at the addresses `hooks`:
\* the mprotect calls and callbacks it makes, in order.
amortize_hooks(hooks, records) ==
    AmortizeLoop(hooks, records, 0, UINTPTR_MAX, 0, 0, <<>>)

\* record->hook of the records of the program.
Hooks == [i \in RecordIds |-> patch_record(i).hook]

\* amortize(records, cb): the mprotect calls and callbacks it makes, in order.
amortize(records) == amortize_hooks(Hooks, records)

\* mprotect(addr, len, p) on the page table.
mprotect(pt, addr, len, p) ==
    [q \in Pages |-> IF addr <= q * PageSize /\ q * PageSize < addr + len THEN p ELSE pt[q]]

(* ------------------------------------------------------------------ *)
(* Controller: the counter loops.  Each returns [data, to_patch].       *)
(* ------------------------------------------------------------------ *)

RECURSIVE ActivateLoop_ignores_unhook(_, _, _, _)
\* An activate_all loop without the `unhook > 0` test.
ActivateLoop_ignores_unhook(arr, k, data, to_patch) ==
    IF k > Len(arr) THEN [data |-> data, to_patch |-> to_patch]
    ELSE LET offset == arr[k]
         IN  ActivateLoop_ignores_unhook(arr, k + 1,
                 [data EXCEPT ![offset].activation = @ + 1],
                 IF data[offset].activation = 0
                 THEN Append(to_patch, offset) ELSE to_patch)

\* An activate_all loop that puts every record it counts on to_patch,
\* already active or not.
ActivateLoop_patches_all(arr, k, data, to_patch) ==
    LET RECURSIVE Loop(_, _, _)
        Loop(j, d, tp) ==
            IF j > Len(arr) THEN [data |-> d, to_patch |-> tp]
            ELSE IF d[arr[j]].unhook > 0 THEN Loop(j + 1, d, tp)
            ELSE Loop(j + 1, [d EXCEPT ![arr[j]].activation = @ + 1],
                      Append(tp, arr[j]))
    IN  Loop(k, data, to_patch)

\* An activate_all loop that leaves the batch at the first unhooked record
\* (`break` where the code has `continue`).
ActivateLoop_stops_at_unhooked(arr, k, data, to_patch) ==
    LET RECURSIVE Loop(_, _, _)
        Loop(j, d, tp) ==
            IF j > Len(arr) \/ d[arr[j]].unhook > 0
            THEN [data |-> d, to_patch |-> tp]
            ELSE Loop(j + 1, [d EXCEPT ![arr[j]].activation = @ + 1],
                      IF d[arr[j]].activation = 0 THEN Append(tp, arr[j]) ELSE tp)
    IN  Loop(k, data, to_patch)

\* An activate_all loop that counts the activation of an unhooked record
\* and only leaves its instruction alone.
ActivateLoop_counts_unhooked(arr, k, data, to_patch) ==
    LET RECURSIVE Loop(_, _, _)
        Loop(j, d, tp) ==
            IF j > Len(arr) THEN [data |-> d, to_patch |-> tp]
            ELSE Loop(j + 1, [d EXCEPT ![arr[j]].activation = @ + 1],
                      IF d[arr[j]].unhook = 0 /\ d[arr[j]].activation = 0
                      THEN Append(tp, arr[j]) ELSE tp)
    IN  Loop(k, data, to_patch)

RECURSIVE ActivateLoop(_, _, _, _)
\* The loop of activate_all over arr (k is 1-based).
ActivateLoop(arr, k, data, to_patch) ==
    IF k > Len(arr) THEN [data |-> data, to_patch |-> to_patch]
    ELSE LET offset == arr[k]
         IN  IF data[offset].unhook > 0
             THEN ActivateLoop(arr, k + 1, data, to_patch)
             ELSE ActivateLoop(arr, k + 1,
                      [data EXCEPT ![offset].activation = @ + 1],
                      IF data[offset].activation = 0
                      THEN Append(to_patch, offset) ELSE to_patch)

RECURSIVE DeactivateLoop_unguarded(_, _, _, _)
\* A deactivate_all loop without the `activation > 0` test.
DeactivateLoop_unguarded(records, k, data, to_patch) ==
    IF k > Len(records) THEN [data |-> data, to_patch |-> to_patch]
    ELSE LET offset == records[k]
         IN  DeactivateLoop_unguarded(records, k + 1,
                 [data EXCEPT ![offset].activation = @ - 1],
                 IF data[offset].activation - 1 = 0
                 THEN Append(to_patch, offset) ELSE to_patch)

RECURSIVE DeactivateLoop_skips_unhooked(_, _, _, _)
\* A deactivate_all loop that, like activate_all, passes over unhooked records.
DeactivateLoop_skips_unhooked(records, k, data, to_patch) ==
    IF k > Len(records) THEN [data |-> data, to_patch |-> to_patch]
    ELSE LET offset == records[k]
         IN  IF data[offset].unhook > 0
             THEN DeactivateLoop_skips_unhooked(records, k + 1, data, to_patch)
             ELSE IF data[offset].activation > 0
             THEN DeactivateLoop_skips_unhooked(records, k + 1,
                      [data EXCEPT ![offset].activation = @ - 1],
                      IF data[offset].activation - 1 = 0
                      THEN Append(to_patch, offset) ELSE to_patch)
             ELSE DeactivateLoop_skips_unhooked(records, k + 1, data, to_patch)

RECURSIVE DeactivateLoop(_, _, _, _)
\* The loop of deactivate_all.
DeactivateLoop(records, k, data, to_patch) ==
    IF k > Len(records) THEN [data |-> data, to_patch |-> to_patch]
    ELSE LET offset == records[k]
         IN  IF data[offset].activation > 0
             THEN DeactivateLoop(records, k + 1,
                      [data EXCEPT ![offset].activation = @ - 1],
                      IF data[offset].activation - 1 = 0
                      THEN Append(to_patch, offset) ELSE to_patch)
             ELSE DeactivateLoop(records, k + 1, data, to_patch)

RECURSIVE RehookLoop_unguarded(_, _, _)
\* A rehook_all loop without the `unhook > 0` test.
RehookLoop_unguarded(records, k, data) ==
    IF k > Len(records) THEN data
    ELSE LET offset == records[k]
         IN  RehookLoop_unguarded(records, k + 1,
                 [data EXCEPT ![offset].unhook = @ - 1])

RECURSIVE RehookLoop(_, _, _)
\* The loop of rehook_all.
RehookLoop(records, k, data) ==
    IF k > Len(records) THEN data
    ELSE LET offset == records[k]
         IN  RehookLoop(records, k + 1,
                 IF data[offset].unhook > 0
                 THEN [data EXCEPT ![offset].unhook = @ - 1] ELSE data)

RECURSIVE UnhookLoop_skips_active(_, _, _)
\* An unhook_all loop that leaves alone the records that are activated.
UnhookLoop_skips_active(records, k, data) ==
    IF k > Len(records) THEN data
    ELSE LET offset == records[k]
         IN  UnhookLoop_skips_active(records, k + 1,
                 IF data[offset].activation > 0 THEN data
                 ELSE [data EXCEPT ![offset].unhook = @ + 1])

RECURSIVE UnhookLoop(_, _, _)
\* The loop of unhook_all.
UnhookLoop(records, k, data) ==
    IF k > Len(records) THEN data
    ELSE LET offset == records[k]
         IN  UnhookLoop(records, k + 1, [data EXCEPT ![offset].unhook = @ + 1])

\* The part of activate_all / deactivate_all / rehook_all / unhook_all between
\* lock() and the amortize call: [data, to_patch, cb].
Body(fn, acc, data) ==
    CASE fn = "activate_all" ->
            LET l == ActivateLoop(acc, 1, data, <<>>)
            IN  [data |-> l.data, to_patch |-> l.to_patch, cb |-> "activate"]
      [] fn = "deactivate_all" ->
            LET l == DeactivateLoop(acc, 1, data, <<>>)
            IN  [data |-> l.data, to_patch |-> l.to_patch, cb |-> "deactivate"]
      [] fn = "rehook_all" ->
            [data |-> RehookLoop(acc, 1, data), to_patch |-> <<>>, cb |-> "none"]
      [] fn = "unhook_all" ->
            [data |-> UnhookLoop(acc, 1, data), to_patch |-> <<>>, cb |-> "none"]
      [] fn = "init_lib" ->
            [data |-> data, to_patch |-> <<>>, cb |-> "none"]

(* ------------------------------------------------------------------ *)
(* Library calls.                                                       *)
(* ------------------------------------------------------------------ *)

\* The patterns callers pass.
Patterns ==
    { Pat(<<".*">>),
      Pat(<<"on", ":">>),
      Pat(<<"^", "on", ":", ".*", "$">>),
      Pat(<<"feature_flag", ":", ".*">>),
      Pat(<<"printf3">>),
      Pat(<<"(">>) }

\* The patterns passed to the _kind macros.
KindPatterns ==
    { NullPattern, Pat(<<".*", "f.c">>), Pat(<<"on", ":">>), Pat(<<"(">>) }

\* The kinds the program passes to the _kind macros.
CallKinds == {"on", "feature_flag"}

\* dynamic_flag_activate / _deactivate / _unhook / _rehook (regex), and
\* dynamic_flag_activate_kind / _deactivate_kind (KIND, PATTERN).
Calls ==
    [op : {"activate", "deactivate", "unhook", "rehook"}, kind : {"any"}, pattern : Patterns]
    \cup [op : {"activate_kind", "deactivate_kind"}, kind : CallKinds, pattern : KindPatterns]

\* The calls the threads of the multi-threaded program make.
ConcCalls ==
    [op : {"activate", "deactivate", "unhook", "rehook"}, kind : {"any"},
     pattern : {Pat(<<".*">>), Pat(<<"feature_flag", ":", ".*">>), Pat(<<"(">>)}]
    \cup [op : {"activate_kind", "deactivate_kind"}, kind : {"feature_flag"},
          pattern : {NullPattern}]

\* The calls of the program whose history is recorded.
HistCalls ==
    [op : {"activate", "deactivate", "unhook", "rehook"}, kind : {"any"},
     pattern : {Pat(<<".*">>), Pat(<<"feature_flag", ":", ".*">>), Pat(<<"(">>)}]

\* The patterns passed to dynamic_flag_list_state.
ListPatterns ==
    { Pat(<<".*">>), Pat(<<"on", ":">>), Pat(<<"(">>),
      Pat(<<"on", ":", "printf3">>),
      Pat(<<".*", "on", ":", "printf3">>),
      Pat(<<"x", "|", "on", ":", "printf3">>),
      Pat(<<"^", "x", "|", "on", ":", "printf3">>) }

\* The controller calls made while states are listed.
ListCalls ==
    [op : {"activate", "deactivate", "unhook", "rehook"}, kind : {"any"},
     pattern : {Pat(<<"on", ":", "printf1">>), Pat(<<"(">>)}]
    \cup [op : {"activate_kind", "deactivate_kind"}, kind : {"on"},
          pattern : {Pat(<<"(">>)}]

\* The calls of the program whose hooks get clobbered.
ClobberCalls ==
    [op : {"activate", "deactivate"}, kind : {"any"},
     pattern : {Pat(<<".*">>), Pat(<<"feature_flag", ":", ".*">>)}]

\* The calls that pass NULL where a regex is expected.
NullCalls ==
    [op : {"activate", "deactivate", "unhook", "rehook"}, kind : {"any"},
     pattern : {NullPattern}]

\* Every call some program of this model makes.
AllCalls ==
    Calls \cup ConcCalls \cup HistCalls \cup ListCalls \cup ClobberCalls \cup NullCalls

\* The static function a public entry point hands its matches to.
AllFn(op) ==
    CASE op \in {"activate", "activate_kind"} -> "activate_all"
      [] op \in {"deactivate", "deactivate_kind"} -> "deactivate_all"
      [] op = "unhook" -> "unhook_all"
      [] op = "rehook" -> "rehook_all"

\* The finder an entry point runs: [r, acc].
Find(call) ==
    IF call.op \in {"activate_kind", "deactivate_kind"}
    THEN find_records_kind(call.kind, call.pattern)
    ELSE find_records(call.pattern)

\* The list an entry point hands to its _all function, as that function
\* leaves it before lock(): activate_all and deactivate_all qsort it.
Matched(call) ==
    IF AllFn(call.op) \in {"activate_all", "deactivate_all"}
    THEN qsort_patches(Find(call).acc)
    ELSE Find(call).acc

\* Find and Matched of every call, tabulated (the records never change
\* after load, so a call finds the same list every time).
FindR == [call \in AllCalls |-> Find(call).r] @@ <<>>

\* The calls whose finder goes through the undefined regcomp.
FindUndefined == [call \in AllCalls |-> Find(call).undefined] @@ <<>>

MatchedOf == [call \in AllCalls |-> Matched(call)] @@ <<>>

\* The counters stay within the bounds of the model.
WithinBounds(fn, acc, data) ==
    /\ fn = "activate_all" =>
          \A k \in 1 .. Len(acc) :
              data[acc[k]].unhook > 0 \/ data[acc[k]].activation < MaxActivation
    /\ fn = "unhook_all" =>
          \A k \in 1 .. Len(acc) : data[acc[k]].unhook < MaxUnhook

\* One of the two stores lock() makes when the counter store is NULL:
\* counts.data = calloc(n, ...), which is zeroed, or counts.size = n.
LockAlloc(c, field) ==
    IF field = "data"
    THEN [c EXCEPT !.data = [i \in RecordIds |-> [activation |-> 0, unhook |-> 0]]]
    ELSE [c EXCEPT !.size = NRecords]

\* init_all up to its amortize call: the sorted list of every record.
init_all_list == qsort_patches(find_records(Pat(<<>>)).acc)

\* A job that returns what activate_all / deactivate_all return, the number
\* of records handed to amortize.
PatchJob_returns_patched(fn, acc, data) ==
    LET b == Body(fn, acc, data)
    IN  [phase |-> "patch", cb |-> b.cb, sched |-> amortize(b.to_patch),
         fn |-> "none", acc |-> <<>>,
         void |-> (fn = "init_lib"), r |-> Len(b.to_patch),
         k |-> 0, before |-> <<>>, pending |-> {}]

\* The job of a thread whose counter loop of fn on acc is over; the loop
\* found the counter table `data`.  What is left is the amortize run on
\* to_patch, then unlock and return acc->size.
PatchJob(fn, acc, data) ==
    LET b == Body(fn, acc, data)
    IN  [phase |-> "patch", cb |-> b.cb, sched |-> amortize(b.to_patch),
         fn |-> "none", acc |-> <<>>,
         void |-> (fn = "init_lib"), r |-> Len(acc),
         k |-> 0, before |-> <<>>, pending |-> {}]

\* A dynamic_flag_init_lib that runs the initial pass on a library that is
\* initialized already.
CountJob_init_lib_patches_again(fn, acc, data) ==
    IF fn = "init_lib"
    THEN [phase |-> "init", cb |-> "default_patch", sched |-> amortize(init_all_list),
          fn |-> fn, acc |-> acc, void |-> TRUE, r |-> Len(acc),
          k |-> 0, before |-> <<>>, pending |-> {}]
    ELSE [phase |-> "count", cb |-> "none", sched |-> <<>>, fn |-> fn, acc |-> acc,
          void |-> FALSE, r |-> Len(acc),
          k |-> 0, before |-> data, pending |-> {}]

\* The job of a thread that is past lock() and enters the counter loop of
\* fn on acc.  dynamic_flag_init_lib has no loop: it goes on to unlock().
CountJob(fn, acc, data) ==
    IF fn = "init_lib" THEN PatchJob(fn, acc, data)
    ELSE [phase |-> "count", cb |-> "none", sched |-> <<>>, fn |-> fn, acc |-> acc,
          void |-> FALSE, r |-> Len(acc),
          k |-> 0, before |-> data, pending |-> {}]

\* The job of a thread inside lock() that has the counter store to allocate.
AllocJob(fn, acc) ==
    [phase |-> "alloc", cb |-> "none", sched |-> <<>>, fn |-> fn, acc |-> acc,
     void |-> (fn = "init_lib"), r |-> Len(acc),
     k |-> 0, before |-> <<>>, pending |-> {"data", "size"}]

\* The job of a thread inside lock() once the counter store is allocated:
\* init_all(), the amortize run of default_patch on every record.
InitJob(fn, acc) ==
    [phase |-> "init", cb |-> "default_patch", sched |-> amortize(init_all_list),
     fn |-> fn, acc |-> acc,
     void |-> (fn = "init_lib"), r |-> Len(acc),
     k |-> 0, before |-> <<>>, pending |-> {}]

\* A lock() that allocates and runs init_all() whether or not the counter
\* store exists.
JobAfterLock_always_init(fn, acc, c) == AllocJob(fn, acc)

\* The job of a thread that has just taken the mutex in lock(), for the
\* function fn on the list acc: allocation and the initial pass first when
\* the counter store is NULL.
JobAfterLock(fn, acc, c) ==
    IF c.data = <<>> THEN AllocJob(fn, acc) ELSE CountJob(fn, acc, c.data)

\* A dynamic_flag_init_lib whose lock() does not wait for the mutex.
InitLib_nolock(t) ==
    /\ status = "running"
    /\ pc[t] = "idle"
    /\ patch_lock' = t
    /\ pc' = [pc EXCEPT ![t] = "locked"]
    /\ job' = JobAfterLock("init_lib", <<>>, counts)
    /\ ret' = NoRet
    /\ lst' = Overlap(t)
    /\ UNCHANGED <<counts, text, prot, status, hist, wide, srt, amz, movb>>

\* dynamic_flag_init_lib: pthread_mutex_lock in lock().
InitLib(t) ==
    /\ status = "running"
    /\ pc[t] = "idle"
    /\ patch_lock = NoThread
    /\ patch_lock' = t
    /\ pc' = [pc EXCEPT ![t] = "locked"]
    /\ job' = JobAfterLock("init_lib", <<>>, counts)
    /\ ret' = NoRet
    /\ lst' = Overlap(t)
    /\ UNCHANGED <<counts, text, prot, status, hist, wide, srt, amz, movb>>

\* A controller entry point is called: patch_list_create asserts that the
\* counter store has a size.
CtlEnter(t) ==
    /\ status = "running"
    /\ pc[t] = "idle"
    /\ IF counts.size > 0
       THEN pc' = [pc EXCEPT ![t] = "ctl"] /\ UNCHANGED status
       ELSE status' = "aborted" /\ UNCHANGED pc
    /\ ret' = NoRet
    /\ lst' = Overlap(t)
    /\ UNCHANGED <<counts, text, prot, patch_lock, job, hist, wide, srt, amz, movb>>

\* The finder fails to compile the pattern: goto out, return r.
CtlFail(t, call) ==
    /\ status = "running"
    /\ pc[t] = "ctl"
    /\ ~FindUndefined[call]
    /\ FindR[call] # 0
    /\ pc' = [pc EXCEPT ![t] = "idle"]
    /\ ret' = [t |-> t, v |-> FindR[call]]
    /\ UNCHANGED <<counts, text, prot, patch_lock, job, status, hist, wide, lst, srt, amz, movb>>

\* The finder hands a NULL pattern to regcomp: the process dies in it, or
\* regcomp rejects the pattern and the call returns -1.
CtlUndefined(t, call, outcome) ==
    /\ status = "running"
    /\ pc[t] = "ctl"
    /\ FindUndefined[call]
    /\ outcome \in RegcompNullOutcomes
    /\ IF outcome = "fault"
       THEN status' = "aborted" /\ ret' = NoRet /\ UNCHANGED pc
       ELSE /\ pc' = [pc EXCEPT ![t] = "idle"]
            /\ ret' = [t |-> t, v |-> -1]
            /\ UNCHANGED status
    /\ UNCHANGED <<counts, text, prot, patch_lock, job, hist, wide, lst, srt, amz, movb>>

\* An _all function that does not wait for the mutex.
CtlLock_nolock(t, call) ==
    /\ status = "running"
    /\ pc[t] = "ctl"
    /\ ~FindUndefined[call]
    /\ FindR[call] = 0
    /\ counts.data # <<>> => WithinBounds(AllFn(call.op), MatchedOf[call], counts.data)
    /\ hist.on => hist.n < MaxCalls
    /\ patch_lock' = t
    /\ pc' = [pc EXCEPT ![t] = "locked"]
    /\ job' = JobAfterLock(AllFn(call.op), MatchedOf[call], counts)
    /\ ret' = NoRet
    /\ UNCHANGED <<counts, text, prot, status, hist, wide, lst, srt, amz, movb>>

\* The finder succeeds; the _all function sorts its list and takes the mutex
\* in lock().
CtlLock(t, call) ==
    /\ status = "running"
    /\ pc[t] = "ctl"
    /\ ~FindUndefined[call]
    /\ FindR[call] = 0
    /\ patch_lock = NoThread
    /\ counts.data # <<>> => WithinBounds(AllFn(call.op), MatchedOf[call], counts.data)
    /\ hist.on => hist.n < MaxCalls
    /\ patch_lock' = t
    /\ pc' = [pc EXCEPT ![t] = "locked"]
    /\ job' = JobAfterLock(AllFn(call.op), MatchedOf[call], counts)
    /\ ret' = NoRet
    /\ UNCHANGED <<counts, text, prot, status, hist, wide, lst, srt, amz, movb>>

\* The lock holder, inside lock() with the counter store NULL, makes one of
\* the two stores to it.  Nothing orders the two for the threads that read
\* the counter store without the lock, and the compiler may emit them in
\* either order.  After both comes init_all().
Alloc(t, field) ==
    /\ status = "running"
    /\ patch_lock = t
    /\ job.phase = "alloc"
    /\ field \in job.pending
    /\ counts' = LockAlloc(counts, field)
    /\ job' = IF job.pending = {field}
              THEN InitJob(job.fn, job.acc)
              ELSE [job EXCEPT !.pending = @ \ {field}]
    /\ ret' = NoRet
    /\ UNCHANGED <<text, prot, patch_lock, pc, status, hist, wide, lst, srt, amz, movb>>

\* The lock holder makes the next iteration of its counter loop: the test
\* and the store for one record of the list.  The counter table after k
\* iterations is what the loop makes of the first k records.
Count(t) ==
    /\ status = "running"
    /\ patch_lock = t
    /\ job.phase = "count"
    /\ job.k < Len(job.acc)
    /\ counts' = [counts EXCEPT
                     !.data = Body(job.fn, SubSeq(job.acc, 1, job.k + 1), job.before).data]
    /\ job' = [job EXCEPT !.k = @ + 1]
    /\ ret' = NoRet
    /\ UNCHANGED <<text, prot, patch_lock, pc, status, hist, wide, lst, srt, amz, movb>>

\* The counter loop is over: activate_all and deactivate_all call amortize
\* on to_patch, unhook_all and rehook_all have nothing left but unlock().
CountDone(t) ==
    /\ status = "running"
    /\ patch_lock = t
    /\ job.phase = "count"
    /\ job.k = Len(job.acc)
    /\ job' = PatchJob(job.fn, job.acc, job.before)
    /\ hist' = HistUpdate(hist, job.fn, job.acc)
    /\ ret' = NoRet
    /\ UNCHANGED <<counts, text, prot, patch_lock, pc, status, wide, lst, srt, amz, movb>>

\* The lock holder makes the next call of its amortize run: an mprotect, or
\* the callback on one record.  A store to a page that is not writable
\* faults, a failed assert of patch / unpatch aborts; default_patch has
\* stored the record's activation count by then, and the process dies with
\* it.
Step(t) ==
    /\ status = "running"
    /\ patch_lock = t
    /\ job.sched # <<>>
    /\ LET e == Head(job.sched)
       IN  IF e.ev = "cb"
           THEN LET r == ApplyCb(job.cb, e.a, counts.data, text)
                    writable == prot[patch_record(e.a).hook \div PageSize] = "rwx"
                IN  IF r.ok /\ writable
                    THEN /\ counts' = [counts EXCEPT !.data = r.data]
                         /\ text' = r.text
                         /\ job' = [job EXCEPT !.sched = Tail(@)]
                         /\ UNCHANGED <<prot, status>>
                    ELSE /\ status' = "aborted"
                         /\ counts' = [counts EXCEPT !.data = r.data]
                         /\ UNCHANGED <<text, prot, job>>
           ELSE /\ prot' = mprotect(prot, e.a, e.b, e.ev)
                /\ job' = [job EXCEPT !.sched = Tail(@)]
                /\ UNCHANGED <<counts, text, status>>
    /\ ret' = NoRet
    /\ UNCHANGED <<patch_lock, pc, hist, wide, lst, srt, amz, movb>>

\* The amortize run is over.  After the initial pass of lock() the caller
\* goes on to its counter loop; otherwise it unlocks and returns the number
\* of matched records (init_lib returns nothing).
Finish(t) ==
    /\ status = "running"
    /\ patch_lock = t
    /\ job.phase \in {"init", "patch"}
    /\ job.sched = <<>>
    /\ IF job.phase = "init" /\ job.fn # "init_lib"
       THEN /\ job' = CountJob(job.fn, job.acc, counts.data)
            /\ ret' = NoRet
            /\ UNCHANGED <<patch_lock, pc>>
       ELSE /\ patch_lock' = NoThread
            /\ job' = NoJob
            /\ pc' = [pc EXCEPT ![t] = "idle"]
            /\ ret' = IF job.void THEN NoRet ELSE [t |-> t, v |-> job.r]
    /\ UNCHANGED <<counts, text, prot, status, hist, wide, lst, srt, amz, movb>>

\* A single-threaded program: one thread makes every library call.
Next ==
    \/ \E t \in Callers : InitLib(t)
    \/ \E t \in Callers : CtlEnter(t)
    \/ \E t \in Callers, call \in Calls : CtlFail(t, call)
    \/ \E t \in Callers, call \in NullCalls, outcome \in RegcompNullOutcomes :
           CtlUndefined(t, call, outcome)
    \/ \E t \in Callers, call \in Calls : CtlLock(t, call)
    \/ \E t \in Callers, field \in {"data", "size"} : Alloc(t, field)
    \/ \E t \in Callers : Count(t)
    \/ \E t \in Callers : CountDone(t)
    \/ \E t \in Callers : Step(t)
    \/ \E t \in Callers : Finish(t)

Spec == Init /\ [][Next]_vars

\* A multi-threaded program: every thread calls the library, and the calls
\* interleave.
NextConc ==
    \/ \E t \in Threads : InitLib(t)
    \/ \E t \in Threads : CtlEnter(t)
    \/ \E t \in Threads, call \in ConcCalls : CtlFail(t, call)
    \/ \E t \in Threads, call \in ConcCalls : CtlLock(t, call)
    \/ \E t \in Threads, field \in {"data", "size"} : Alloc(t, field)
    \/ \E t \in Threads : Count(t)
    \/ \E t \in Threads : CountDone(t)
    \/ \E t \in Threads : Step(t)
    \/ \E t \in Threads : Finish(t)

SpecConc == Init /\ [][NextConc]_vars

\* The multi-threaded program under fair scheduling: a thread that holds the
\* mutex keeps running (its next store, mprotect, callback or unlock is
\* eventually taken), and a thread that waits in pthread_mutex_lock gets the mutex if
\* it is free again and again.
Fairness ==
    \A t \in Threads :
        /\ WF_vars((\E field \in {"data", "size"} : Alloc(t, field))
                   \/ Count(t) \/ CountDone(t) \/ Step(t) \/ Finish(t))
        /\ SF_vars(\E call \in ConcCalls : CtlLock(t, call) \/ CtlFail(t, call))

SpecFair == Init /\ [][NextConc]_vars /\ Fairness

\* A single-threaded program whose calls are recorded in `hist`.
NextHist ==
    \/ \E t \in Callers : InitLib(t)
    \/ \E t \in Callers : CtlEnter(t)
    \/ \E t \in Callers, call \in HistCalls : CtlFail(t, call)
    \/ \E t \in Callers, call \in HistCalls : CtlLock(t, call)
    \/ \E t \in Callers, field \in {"data", "size"} : Alloc(t, field)
    \/ \E t \in Callers : Count(t)
    \/ \E t \in Callers : CountDone(t)
    \/ \E t \in Callers : Step(t)
    \/ \E t \in Callers : Finish(t)

SpecHist == InitHist /\ [][NextHist]_vars

(* ------------------------------------------------------------------ *)
(* dynamic_flag_list_state.  `lst` holds the sorted match list, the     *)
(* loop index and the states handed to the callback so far.             *)
(* ------------------------------------------------------------------ *)

\* The values the callback returns.
CbReturns == {0, -2, 3}

\* The sorted orders of the match list of each listed pattern.
SortedOf == [p \in ListPatterns |-> qsort_alpha(find_records(p).acc, NameDocs)] @@ <<>>

\* r = find_records(regex, acc) for each listed pattern.
ListFindR == [p \in ListPatterns |-> find_records(p).r] @@ <<>>

\* A state that is built without reading the counters.
dynamic_flag_state_zeroed(acc, i, count) ==
    [name |-> patch_record(acc[i]).name_doc,
     doc |-> Sites[acc[i]].doc,
     activation |-> 0,
     unhook |-> 0,
     hook |-> patch_record(acc[i]).hook,
     destination |-> patch_record(acc[i]).destination,
     duplicate |-> Duplicate(acc, i, NameDocs)]

\* struct dynamic_flag_state for acc->data[i] (i from 1): the record's
\* strings and addresses, the two counters as they were loaded (`count`),
\* and the duplicate mark when the previous entry has the same name.
dynamic_flag_state(acc, i, count) ==
    [name |-> patch_record(acc[i]).name_doc,
     doc |-> Sites[acc[i]].doc,
     activation |-> count.activation,
     unhook |-> count.unhook,
     hook |-> patch_record(acc[i]).hook,
     destination |-> patch_record(acc[i]).destination,
     duplicate |-> Duplicate(acc, i, NameDocs)]

\* dynamic_flag_list_state up to its loop: patch_list_create (which asserts
\* that the counter store is allocated), find_records and qsort.
ListEnter(t, pattern) ==
    /\ status = "running"
    /\ pc[t] = "idle"
    /\ IF counts.size = 0
       THEN status' = "aborted" /\ ret' = NoRet /\ UNCHANGED <<pc, lst, srt>>
       ELSE IF ListFindR[pattern] # 0
       THEN /\ ret' = [t |-> t, v |-> ListFindR[pattern]]
            /\ UNCHANGED <<pc, lst, status>>
       ELSE /\ lst.t = NoThread
            /\ \E sorted \in SortedOf[pattern] :
                   lst' = [t |-> t, acc |-> sorted, i |-> 0, out |-> <<>>,
                           activation |-> NotLoaded, unhook |-> NotLoaded,
                           alone |-> \A u \in Threads \ {t} : pc[u] = "idle"]
            /\ pc' = [pc EXCEPT ![t] = "list"]
            /\ ret' = NoRet
            /\ UNCHANGED status
    /\ UNCHANGED <<counts, text, prot, patch_lock, job, hist, wide, srt, amz, movb>>

\* The loop loads one of the two counters of its next entry from
\* counts.data, without the lock.  The two loads are separate, in either
\* order (the initializers of the state are not sequenced), and other
\* threads run between them.  A load through a counts.data that is still
\* NULL faults.
ListLoad(t, field) ==
    /\ status = "running"
    /\ pc[t] = "list"
    /\ lst.t = t
    /\ lst.i < Len(lst.acc)
    /\ lst[field] = NotLoaded
    /\ IF counts.data = <<>>
       THEN status' = "aborted" /\ UNCHANGED lst
       ELSE /\ lst' = [lst EXCEPT ![field] = counts.data[lst.acc[lst.i + 1]][field]]
            /\ UNCHANGED status
    /\ ret' = NoRet
    /\ UNCHANGED <<counts, text, prot, patch_lock, pc, job, hist, wide, srt, amz, movb>>

\* The rest of the iteration: the callback gets the state with the two
\* counters as loaded and returns r; a non-zero r ends the call with that
\* value.
ListCb(t, r) ==
    /\ status = "running"
    /\ pc[t] = "list"
    /\ lst.t = t
    /\ lst.i < Len(lst.acc)
    /\ lst.activation # NotLoaded
    /\ lst.unhook # NotLoaded
    /\ LET state == dynamic_flag_state(lst.acc, lst.i + 1,
                                       [activation |-> lst.activation,
                                        unhook |-> lst.unhook])
       IN  IF r # 0
           THEN /\ lst' = NoList
                /\ pc' = [pc EXCEPT ![t] = "idle"]
                /\ ret' = [t |-> t, v |-> r]
           ELSE /\ lst' = [lst EXCEPT !.i = @ + 1, !.out = Append(@, state),
                                      !.activation = NotLoaded, !.unhook = NotLoaded]
                /\ ret' = NoRet
                /\ UNCHANGED pc
    /\ UNCHANGED <<counts, text, prot, patch_lock, job, status, hist, wide, srt, amz, movb>>

\* A dynamic_flag_list_state that returns acc->size from inside the loop,
\* before every entry has been handed to the callback.
ListReturn_early(t) ==
    /\ status = "running"
    /\ pc[t] = "list"
    /\ lst.t = t
    /\ lst.i >= 1
    /\ lst' = NoList
    /\ pc' = [pc EXCEPT ![t] = "idle"]
    /\ ret' = [t |-> t, v |-> Len(lst.acc)]
    /\ UNCHANGED <<counts, text, prot, patch_lock, job, status, hist, wide, srt, amz, movb>>

\* The loop is over: r = acc->size.
ListReturn(t) ==
    /\ status = "running"
    /\ pc[t] = "list"
    /\ lst.t = t
    /\ lst.i = Len(lst.acc)
    /\ lst' = NoList
    /\ pc' = [pc EXCEPT ![t] = "idle"]
    /\ ret' = [t |-> t, v |-> Len(lst.acc)]
    /\ UNCHANGED <<counts, text, prot, patch_lock, job, status, hist, wide, srt, amz, movb>>

\* The thread that lists the flag states.
Listers == {"t1"}

\* The thread that makes the controller calls of that program.
Controllers == {"t2"}

\* A multi-threaded program that lists the flag states while it changes
\* them; either thread may be the one that initializes the library.
NextList ==
    \/ \E t \in Threads : InitLib(t)
    \/ \E t \in Controllers : CtlEnter(t)
    \/ \E t \in Controllers, call \in ListCalls : CtlFail(t, call)
    \/ \E t \in Controllers, call \in ListCalls : CtlLock(t, call)
    \/ \E t \in Threads, field \in {"data", "size"} : Alloc(t, field)
    \/ \E t \in Threads : Count(t)
    \/ \E t \in Threads : CountDone(t)
    \/ \E t \in Threads : Step(t)
    \/ \E t \in Threads : Finish(t)
    \/ \E t \in Listers, pattern \in ListPatterns : ListEnter(t, pattern)
    \/ \E t \in Listers, field \in {"activation", "unhook"} : ListLoad(t, field)
    \/ \E t \in Listers, r \in CbReturns : ListCb(t, r)
    \/ \E t \in Listers : ListReturn(t)

SpecList == Init /\ [][NextList]_vars

(* ------------------------------------------------------------------ *)
(* A program in which something other than the library stores to a     *)
(* hook instruction (a debugger's breakpoint, a stray write): once, at  *)
(* any time, either the opcode byte or the operand of one hook changes. *)
(* ------------------------------------------------------------------ *)

\* The store: int3 (0xcc) over the opcode byte, or the operand off by one.
Clobber(i, byte) ==
    /\ status = "running"
    /\ \A j \in RecordIds : PatchAsserts(j, text)
    /\ text' = [text EXCEPT ![i] =
                   IF byte = "opcode" THEN [@ EXCEPT !.opcode = 204]
                   ELSE [@ EXCEPT !.rel32 = @ + 1]]
    /\ ret' = NoRet
    /\ UNCHANGED <<counts, prot, patch_lock, pc, job, status, hist, wide, lst, srt, amz, movb>>

NextClobber ==
    \/ \E t \in Callers : InitLib(t)
    \/ \E t \in Callers : CtlEnter(t)
    \/ \E t \in Callers, call \in ClobberCalls : CtlLock(t, call)
    \/ \E t \in Callers, field \in {"data", "size"} : Alloc(t, field)
    \/ \E t \in Callers : Count(t)
    \/ \E t \in Callers : CountDone(t)
    \/ \E t \in Callers : Step(t)
    \/ \E t \in Callers : Finish(t)
    \/ \E i \in RecordIds, byte \in {"opcode", "operand"} : Clobber(i, byte)

SpecClobber == Init /\ [][NextClobber]_vars

(* ------------------------------------------------------------------ *)
(* The sort and the loop of dynamic_flag_list_state on a table of names *)
(* that has every case of cmp_patches_alpha: one flag with and without  *)
(* a docstring, docstrings of different and of equal length, line       *)
(* numbers whose text order is not their numeric order, a file name     *)
(* that extends another, and an exact duplicate.  `line` is the         *)
(* __LINE__ the name was made from.                                     *)
(* ------------------------------------------------------------------ *)

SortTable ==
    << [name_doc |-> <<"on", ":", "printf1", "@", "f.c", ":", "21">>,
        doc |-> <<"enabled", "initially">>, line |-> 21],
       [name_doc |-> <<"on", ":", "printf1", "@", "f.c", ":", "21">>,
        doc |-> <<>>, line |-> 21],
       [name_doc |-> <<"on", ":", "printf1", "@", "f.c", ":", "9">>,
        doc |-> <<>>, line |-> 9],
       [name_doc |-> <<"on", ":", "printf1", "@", "f.c", ":", "100">>,
        doc |-> <<"off">>, line |-> 100],
       [name_doc |-> <<"on", ":", "printf1", "@", "f.c", ":", "36">>,
        doc |-> <<"off">>, line |-> 36],
       [name_doc |-> <<"on", ":", "printf2", "@", "f.c", ":", "27">>,
        doc |-> <<>>, line |-> 27],
       [name_doc |-> <<"on", ":", "printf1", "@", "f.c.in", ":", "55">>,
        doc |-> <<>>, line |-> 55],
       [name_doc |-> <<"on", ":", "printf1", "@", "f.c", ":", "21">>,
        doc |-> <<"enabled", "initially">>, line |-> 21] >>

SortRecord(i) == SortTable[i]

\* find_records pushes one more record of the table on acc.
SortPush(r) ==
    /\ srt.phase \in {"none", "find"}
    /\ Len(srt.acc) < MaxSort
    /\ \A k \in 1 .. Len(srt.acc) : srt.acc[k] # r
    /\ srt' = [srt EXCEPT !.phase = "find", !.acc = Append(@, r)]
    /\ UNCHANGED <<counts, text, prot, patch_lock, pc, ret, job, status, hist, wide, lst, amz, movb>>

\* qsort(acc->data, acc->size, sizeof(struct patch_record *), cmp_patches_alpha)
SortQsort ==
    /\ srt.phase = "find"
    /\ \E sorted \in qsort_alpha(srt.acc, SortTable) :
           srt' = [phase |-> "loop", acc |-> sorted, i |-> 0, out |-> <<>>]
    /\ UNCHANGED <<counts, text, prot, patch_lock, pc, ret, job, status, hist, wide, lst, amz, movb>>

\* One iteration of the loop of dynamic_flag_list_state, with a callback
\* that returns 0: the name, the docstring and the duplicate mark of the
\* next entry.
SortCb ==
    /\ srt.phase = "loop"
    /\ srt.i < Len(srt.acc)
    /\ srt' = [srt EXCEPT
                   !.i = @ + 1,
                   !.out = Append(@, [name |-> SortRecord(srt.acc[srt.i + 1]).name_doc,
                                      doc |-> SortRecord(srt.acc[srt.i + 1]).doc,
                                      duplicate |-> Duplicate(srt.acc, srt.i + 1, SortTable)])]
    /\ UNCHANGED <<counts, text, prot, patch_lock, pc, ret, job, status, hist, wide, lst, amz, movb>>

NextSort ==
    \/ \E r \in 1 .. Len(SortTable) : SortPush(r)
    \/ SortQsort
    \/ SortCb

SpecSort == Init /\ [][NextSort]_vars

(* ------------------------------------------------------------------ *)
(* amortize on its own.  One call on a list of up to MaxBatch records   *)
(* whose hooks lie anywhere in the first pages of the address space,    *)
(* page 0 included; the list is sorted by hook address, as qsort with   *)
(* cmp_patches leaves it.  `amz` holds the hooks, the calls amortize    *)
(* has still to make and has made, the page protections, and whether    *)
(* every callback so far found all pages of its hook writable.          *)
(* ------------------------------------------------------------------ *)

RECURSIVE LayoutsOf(_)
\* The lists of at most n hook addresses in 0 .. MaxHook, ascending, the
\* HOOK_SIZE bytes of one instruction ending before the next begins.
LayoutsOf(n) ==
    IF n = 0 THEN {<<>>}
    ELSE LET shorter == LayoutsOf(n - 1)
         IN  shorter \cup
             UNION {{Append(h, a) :
                        a \in (IF h = <<>> THEN 0 ELSE h[Len(h)] + HOOK_SIZE) .. MaxHook} :
                    h \in {x \in shorter : Len(x) = n - 1}}

Layouts == LayoutsOf(MaxBatch)

\* The list handed to amortize: every record of the layout, in address order.
LayoutList(layout) == [k \in 1 .. Len(layout) |-> k]

\* The pages of the HOOK_SIZE bytes at the address hook.
PagesOfHook(hook) == (hook \div PageSize) .. ((hook + HOOK_SIZE - 1) \div PageSize)

\* amortize(records, cb) is called.
AmortizeCall(layout) ==
    /\ amz.phase = "none"
    /\ amz' = [phase |-> "run", hooks |-> layout,
               sched |-> amortize_hooks(layout, LayoutList(layout)),
               trace |-> <<>>, prot |-> [p \in Pages |-> "rx"], covered |-> TRUE]
    /\ UNCHANGED <<counts, text, prot, patch_lock, pc, ret, job, status, hist, wide, lst, srt, movb>>

\* The next call of the run is an mprotect.
AmortizeMprotect ==
    /\ amz.phase = "run"
    /\ amz.sched # <<>>
    /\ Head(amz.sched).ev # "cb"
    /\ LET e == Head(amz.sched)
       IN  amz' = [amz EXCEPT !.sched = Tail(@), !.trace = Append(@, e),
                              !.prot = mprotect(@, e.a, e.b, e.ev)]
    /\ UNCHANGED <<counts, text, prot, patch_lock, pc, ret, job, status, hist, wide, lst, srt, movb>>

\* The next call of the run is the callback on a record.
AmortizeCb ==
    /\ amz.phase = "run"
    /\ amz.sched # <<>>
    /\ Head(amz.sched).ev = "cb"
    /\ LET e == Head(amz.sched)
       IN  amz' = [amz EXCEPT !.sched = Tail(@), !.trace = Append(@, e),
                              !.covered = @ /\ \A p \in PagesOfHook(amz.hooks[e.a]) :
                                                  amz.prot[p] = "rwx"]
    /\ UNCHANGED <<counts, text, prot, patch_lock, pc, ret, job, status, hist, wide, lst, srt, movb>>

\* amortize returns.
AmortizeReturn ==
    /\ amz.phase = "run"
    /\ amz.sched = <<>>
    /\ amz' = [amz EXCEPT !.phase = "done"]
    /\ UNCHANGED <<counts, text, prot, patch_lock, pc, ret, job, status, hist, wide, lst, srt, movb>>

NextAmortize ==
    \/ \E layout \in Layouts : AmortizeCall(layout)
    \/ AmortizeMprotect
    \/ AmortizeCb
    \/ AmortizeReturn

SpecAmortize == Init /\ [][NextAmortize]_vars

(* ------------------------------------------------------------------ *)
(* The immediate style.  The hook is `movb $DEFAULT, %reg`: opcode      *)
(* 0xB0 + reg and the immediate byte, with a REX prefix in front for    *)
(* the registers that need one.  `movb` holds the HOOK_SIZE_1 bytes at  *)
(* the hook (for the two-byte form the third is the first byte of the   *)
(* next instruction).  patch and unpatch are applied to one hook; the   *)
(* counters and the batches are those of the jump style.                *)
(* ------------------------------------------------------------------ *)

\* The field patch / unpatch store to, as an index into the hook (1 is the
\* byte at `address`): address + 1, or one more byte forward when that
\* byte is neither value.
Field(bytes) ==
    IF bytes[2] # DYNAMIC_FLAG_VALUE_ACTIVE_1 /\ bytes[2] # DYNAMIC_FLAG_VALUE_INACTIVE_1
    THEN 3 ELSE 2

\* patch of the immediate style: field[0] = DYNAMIC_FLAG_VALUE_ACTIVE
patch_imm8(bytes) ==
    [ok |-> bytes[Field(bytes)] \in
                {DYNAMIC_FLAG_VALUE_ACTIVE_1, DYNAMIC_FLAG_VALUE_INACTIVE_1},
     bytes |-> [bytes EXCEPT ![Field(bytes)] = DYNAMIC_FLAG_VALUE_ACTIVE_1]]

\* unpatch of the immediate style: field[0] = DYNAMIC_FLAG_VALUE_INACTIVE
unpatch_imm8(bytes) ==
    [ok |-> bytes[Field(bytes)] \in
                {DYNAMIC_FLAG_VALUE_ACTIVE_1, DYNAMIC_FLAG_VALUE_INACTIVE_1},
     bytes |-> [bytes EXCEPT ![Field(bytes)] = DYNAMIC_FLAG_VALUE_INACTIVE_1]]

\* The opcodes of movb $imm8 to a byte register, and the REX prefixes.
MovbOpcodes == 176 .. 183

RexPrefixes == 64 .. 79

\* The hooks the assembler emits: the two-byte form followed by a byte of the
\* next instruction, and the three-byte form with a REX prefix.
MovbHooks ==
    {<<op, imm, nxt>> : op \in MovbOpcodes,
                        imm \in {DYNAMIC_FLAG_VALUE_ACTIVE_1, DYNAMIC_FLAG_VALUE_INACTIVE_1},
                        nxt \in {0, 144, 195, 244}}
    \cup {<<rex, op, imm>> : rex \in RexPrefixes, op \in MovbOpcodes,
                             imm \in {DYNAMIC_FLAG_VALUE_ACTIVE_1,
                                      DYNAMIC_FLAG_VALUE_INACTIVE_1}}

\* The index of the immediate byte of the instruction, from its encoding.
ImmIndex(bytes) == IF bytes[1] \in RexPrefixes THEN 3 ELSE 2

\* A program built in the immediate style, at one of its hooks.
InitMovb ==
    /\ InitProgram
    /\ hist = [on |-> FALSE, n |-> 0, rec |-> [i \in RecordIds |-> NoHistory]]
    /\ wide = NoWide
    /\ lst = NoList
    /\ srt = NoSort
    /\ amz = NoAmortize
    /\ movb \in MovbHooks

\* The callback of a batch calls patch on the hook.
MovbPatch ==
    /\ movb # NoMovb
    /\ status = "running"
    /\ LET r == patch_imm8(movb)
       IN  IF r.ok THEN movb' = r.bytes /\ UNCHANGED status
           ELSE status' = "aborted" /\ UNCHANGED movb
    /\ UNCHANGED <<counts, text, prot, patch_lock, pc, ret, job, hist, wide, lst, srt, amz>>

\* The callback of a batch calls unpatch on the hook.
MovbUnpatch ==
    /\ movb # NoMovb
    /\ status = "running"
    /\ LET r == unpatch_imm8(movb)
       IN  IF r.ok THEN movb' = r.bytes /\ UNCHANGED status
           ELSE status' = "aborted" /\ UNCHANGED movb
    /\ UNCHANGED <<counts, text, prot, patch_lock, pc, ret, job, hist, wide, lst, srt, amz>>

\* The program in either style: the one the build selects.
InitStyles == Init \/ InitMovb

NextStyles ==
    \/ movb = NoMovb /\ Next
    \/ MovbPatch
    \/ MovbUnpatch

SpecStyles == InitStyles /\ [][NextStyles]_vars

\* Something other than the library stores to the immediate byte of the
\* movb hook, once: int3 (0xcc) over it.
MovbClobber ==
    /\ movb \in MovbHooks
    /\ status = "running"
    /\ movb' = [movb EXCEPT ![ImmIndex(movb)] = 204]
    /\ UNCHANGED <<counts, text, prot, patch_lock, pc, ret, job, status, hist, wide, lst, srt, amz>>

\* The program in either style, with one foreign store to a hook.
NextClobberStyles ==
    \/ movb = NoMovb /\ NextClobber
    \/ MovbPatch
    \/ MovbUnpatch
    \/ MovbClobber

SpecClobberStyles == InitStyles /\ [][NextClobberStyles]_vars

(* ------------------------------------------------------------------ *)
(* The counter arithmetic at full width.  One record's slot of          *)
(* counts.data is followed as two uint64_t in `wide`, starting near 0   *)
(* or near UINT64_MAX; each action is one call of an _all function on   *)
(* a list that holds this record (the mprotect calls around the         *)
(* callback leave the page protections as they were).                   *)
(* ------------------------------------------------------------------ *)

InitWide ==
    /\ counts = [data |-> <<>>, size |-> 0]
    /\ prot = [p \in Pages |-> "rx"]
    /\ patch_lock = NoThread
    /\ pc = [t \in Threads |-> "idle"]
    /\ ret = NoRet
    /\ job = NoJob
    /\ status = "running"
    /\ hist = [on |-> FALSE, n |-> 0, rec |-> [i \in RecordIds |-> NoHistory]]
    /\ lst = NoList
    /\ srt = NoSort
    /\ amz = NoAmortize
    /\ movb = NoMovb
    /\ \E i \in RecordIds, a \in U64Near, u \in U64Near :
           /\ wide = [rec |-> i, activation |-> a, unhook |-> u]
           /\ LET assembled == [j \in RecordIds |-> AssembledText(j)]
              IN  text = IF a # U64(0) THEN activate(i, <<>>, assembled).text
                         ELSE deactivate(i, <<>>, assembled).text

\* activate_all on a list that holds the record: `if (unhook > 0) continue;
\* if (activation++ == 0) push`, then amortize(to_patch, activate).
activate_all_wide(w, txt) ==
    LET skip == w.unhook # U64(0)
    IN  [wide |-> [w EXCEPT !.activation = IF skip THEN @ ELSE U64Inc(@)],
         text |-> IF ~skip /\ w.activation = U64(0)
                  THEN activate(w.rec, <<>>, txt).text ELSE txt]

\* deactivate_all: `if (activation > 0 && --activation == 0) push`, then
\* amortize(to_patch, deactivate).
deactivate_all_wide(w, txt) ==
    LET dec == w.activation # U64(0)
        a == IF dec THEN U64Dec(w.activation) ELSE w.activation
    IN  [wide |-> [w EXCEPT !.activation = a],
         text |-> IF dec /\ a = U64(0)
                  THEN deactivate(w.rec, <<>>, txt).text ELSE txt]

\* unhook_all: `unhook++`.
unhook_all_wide(w, txt) ==
    [wide |-> [w EXCEPT !.unhook = U64Inc(@)], text |-> txt]

\* rehook_all: `if (unhook > 0) unhook--`.
rehook_all_wide(w, txt) ==
    [wide |-> [w EXCEPT !.unhook = IF @ # U64(0) THEN U64Dec(@) ELSE @],
     text |-> txt]

\* dynamic_flag_activate on a pattern that matches the record.
WideActivate ==
    /\ wide.rec # 0
    /\ LET r == activate_all_wide(wide, text)
       IN  /\ r.wide.activation \in U64Near
           /\ wide' = r.wide
           /\ text' = r.text
    /\ UNCHANGED <<counts, prot, patch_lock, pc, ret, job, status, hist, lst, srt, amz, movb>>

\* dynamic_flag_deactivate on a pattern that matches the record.
WideDeactivate ==
    /\ wide.rec # 0
    /\ LET r == deactivate_all_wide(wide, text)
       IN  /\ r.wide.activation \in U64Near
           /\ wide' = r.wide
           /\ text' = r.text
    /\ UNCHANGED <<counts, prot, patch_lock, pc, ret, job, status, hist, lst, srt, amz, movb>>

\* dynamic_flag_unhook on a pattern that matches the record.
WideUnhook ==
    /\ wide.rec # 0
    /\ unhook_all_wide(wide, text).wide.unhook \in U64Near
    /\ wide' = unhook_all_wide(wide, text).wide
    /\ UNCHANGED <<counts, text, prot, patch_lock, pc, ret, job, status, hist, lst, srt, amz, movb>>

\* dynamic_flag_rehook on a pattern that matches the record.
WideRehook ==
    /\ wide.rec # 0
    /\ rehook_all_wide(wide, text).wide.unhook \in U64Near
    /\ wide' = rehook_all_wide(wide, text).wide
    /\ UNCHANGED <<counts, text, prot, patch_lock, pc, ret, job, status, hist, lst, srt, amz, movb>>

NextWide ==
    \/ WideActivate
    \/ WideDeactivate
    \/ WideUnhook
    \/ WideRehook

SpecWide == InitWide /\ [][NextWide]_vars

(* ------------------------------------------------------------------ *)
(* Derived notions used by the properties.                              *)
(* ------------------------------------------------------------------ *)

\* The library is initialized and no thread is inside lock() .. unlock().
Quiescent == counts.data # <<>> /\ patch_lock = NoThread

TypeOK ==
    /\ counts.size \in {0, NRecords}
    /\ patch_lock \in Threads \cup {NoThread}
    /\ \A i \in RecordIds : text[i].opcode \in {233, 169}
    /\ \A p \in Pages : prot[p] \in {"rx", "rwx"}
    /\ status \in {"running", "aborted"}

\* The count the initial pass assigns to record i: default_patch on the
\* zeroed counter store and the assembled text.
InitialCount(i) ==
    default_patch(i, [j \in RecordIds |-> [activation |-> 0, unhook |-> 0]],
                  [j \in RecordIds |-> AssembledText(j)]).data[i].activation

\* The step in which the thread that ran the initial pass unlocks.
InitPassEnds ==
    /\ patch_lock # NoThread
    /\ job.phase = "init"
    /\ patch_lock' = NoThread

\* Record i has a callback in the amortize run of the job j.
Scheduled(j, i) == \E k \in 1 .. Len(j.sched) : j.sched[k] = CbEvent(i)

(* ------------------------------------------------------------------ *)
(* Properties.                                                          *)
(* ------------------------------------------------------------------ *)

\* C1: once the library is initialized, whenever no controller holds the
\* patch lock, and whatever calls the threads have interleaved, every flag
\* evaluates to true exactly when its activation count is positive; and its
\* hook holds the ACTIVE opcode exactly when (activation > 0) differs from
\* `flipped`.
C1_OnIffActivated ==
    Quiescent =>
        \A i \in RecordIds :
            /\ Evaluate(i, text) <=> (counts.data[i].activation > 0)
            /\ (text[i].opcode = DYNAMIC_FLAG_VALUE_ACTIVE)
                   <=> ((counts.data[i].activation > 0) # (patch_record(i).flipped # 0))

\* Two threads are between calls, after the DF_FEATURE flag was turned on
\* and a DF_DEFAULT flag was turned off.
C1_Witness ==
    /\ Quiescent
    /\ \A t \in Threads : pc[t] = "idle"
    /\ counts.data[4].activation > 0 /\ Evaluate(4, text)
    /\ counts.data[2].activation = 0 /\ ~Evaluate(2, text)

\* C2 as stated: for every flag kind the flag evaluates to true exactly when
\* its activation count is positive, before the library is initialized (the
\* count being the one the initial pass assigns) and after.
C2_Original ==
    /\ counts.data = <<>> =>
           \A i \in RecordIds : Evaluate(i, text) <=> (InitialCount(i) > 0)
    /\ Quiescent =>
           \A i \in RecordIds : Evaluate(i, text) <=> (counts.data[i].activation > 0)

\* C2, amended: the equivalence holds for every kind once the library is
\* initialized, and before that for the feature, default and default-slow
\* kinds; a DF_OPT flag evaluates to true before the library is initialized
\* although the initial pass assigns it the count 0.
C2_Amended ==
    /\ counts.data = <<>> =>
           \A i \in RecordIds :
               IF Sites[i].macro = DF_OPT
               THEN Evaluate(i, text) /\ InitialCount(i) = 0
               ELSE Evaluate(i, text) <=> (InitialCount(i) > 0)
    /\ Quiescent =>
           \A i \in RecordIds :
               Evaluate(i, text) = (counts.data[i].activation > 0)

\* Every record has been activated once since the initial pass, the DF_OPT
\* record among them, and every flag evaluates to true.
C2_Witness ==
    /\ Quiescent
    /\ \A i \in RecordIds : counts.data[i].activation = InitialCount(i) + 1
    /\ \A i \in RecordIds : Evaluate(i, text)

\* C3: before the library is initialized a DF_FEATURE flag evaluates to
\* false and DF_DEFAULT, DF_DEFAULT_SLOW and DF_OPT flags to true; when the
\* initial pass ends DF_DEFAULT and DF_DEFAULT_SLOW flags evaluate to true
\* and DF_FEATURE and DF_OPT flags to false.
C3_CompiledThenInitial ==
    [][ /\ counts.data = <<>> =>
               \A i \in RecordIds :
                   Evaluate(i, text) <=> (Sites[i].macro # DF_FEATURE)
        /\ InitPassEnds =>
               \A i \in RecordIds :
                   Evaluate(i, text') <=> (Sites[i].macro \in {DF_DEFAULT, DF_DEFAULT_SLOW})
      ]_vars

\* The initial pass has rewritten the DF_OPT hook, nothing was called since.
C3_Witness ==
    /\ Quiescent
    /\ text[1].opcode # AssembledText(1).opcode
    /\ ~Evaluate(1, text) /\ ~Evaluate(4, text)
    /\ Evaluate(2, text) /\ Evaluate(3, text) /\ Evaluate(5, text)
    /\ \A i \in RecordIds : counts.data[i].unhook = 0

\* C4: when the initial pass ends every record has unhook 0, activation 1
\* exactly when its initial opcode is ACTIVE and it is not flipped or its
\* initial opcode is INACTIVE and it is flipped (0 otherwise), and its hook
\* holds its initial opcode, whatever opcode was assembled there.
C4_InitialCounts ==
    [][ InitPassEnds =>
            \A i \in RecordIds :
                LET record == patch_record(i)
                IN  /\ counts'.data[i].unhook = 0
                    /\ counts'.data[i].activation =
                           IF \/ /\ record.initial_opcode = DYNAMIC_FLAG_VALUE_ACTIVE
                                 /\ record.flipped = 0
                              \/ /\ record.initial_opcode = DYNAMIC_FLAG_VALUE_INACTIVE
                                 /\ record.flipped # 0
                           THEN 1 ELSE 0
                    /\ text'[i].opcode = record.initial_opcode
      ]_vars

\* The initial pass is over: the DF_DEFAULT and DF_DEFAULT_SLOW records count
\* 1, the others 0, and the DF_OPT hook no longer holds the opcode that was
\* assembled.
C4_Witness ==
    /\ Quiescent
    /\ \A i \in RecordIds :
           /\ counts.data[i].unhook = 0
           /\ counts.data[i].activation =
                  (IF Sites[i].macro \in {DF_DEFAULT, DF_DEFAULT_SLOW} THEN 1 ELSE 0)
           /\ text[i].opcode = patch_record(i).initial_opcode
    /\ \E i \in RecordIds : AssembledText(i).opcode # patch_record(i).initial_opcode

\* The step in which thread t, holding the lock for the entry point `call`,
\* leaves the counter loop of fn: the loop found the counter table
\* job.before and leaves counts.data.  (A call is known by its function and
\* its match list.)
CounterStep(t, call, fn) ==
    /\ AllFn(call.op) = fn
    /\ FindR[call] = 0
    /\ job.fn = fn
    /\ job.acc = MatchedOf[call]
    /\ CountDone(t)

\* Record i is on the list the entry point `call` hands to its _all function.
Matches(call, i) == \E k \in 1 .. Len(MatchedOf[call]) : MatchedOf[call][k] = i

\* An instruction changes only in the callback the lock holder's amortize run
\* makes on its record.
OnlyScheduledWrites ==
    \A i \in RecordIds :
        text'[i] # text[i] =>
            /\ patch_lock # NoThread
            /\ job.sched # <<>>
            /\ Head(job.sched) = CbEvent(i)

\* C5 as stated: the activation count never goes below 0; a deactivate that
\* matches a record whose activation is 0 leaves it at 0 and writes no
\* instruction; and whenever the deactivations of a record outnumber its
\* activations (the initial one included) the record has activation 0.
C5_Original ==
    /\ [](counts.data # <<>> => \A i \in RecordIds : counts.data[i].activation >= 0)
    /\ [][ /\ OnlyScheduledWrites
           /\ \A t \in Threads, call \in Calls :
                  CounterStep(t, call, "deactivate_all") =>
                      \A i \in RecordIds :
                          Matches(call, i) /\ job.before[i].activation = 0
                              => counts'.data[i].activation = 0 /\ ~Scheduled(job', i)
         ]_vars
    /\ [](Quiescent /\ hist.on =>
            \A i \in RecordIds :
                hist.rec[i].nd > InitialCount(i) + hist.rec[i].na
                    => counts.data[i].activation = 0)

\* C5, amended: the activation count never goes below 0; a deactivate that
\* matches a record whose activation is 0 leaves it at 0 and writes no
\* instruction; and whenever the deactivations of a record since its last
\* activation outnumber all its activations (the initial one included) the
\* record has activation 0.
C5_Amended ==
    /\ [](counts.data # <<>> => \A i \in RecordIds : counts.data[i].activation >= 0)
    /\ [][ /\ OnlyScheduledWrites
           /\ \A t \in Threads, call \in Calls :
                  CounterStep(t, call, "deactivate_all") =>
                      \A i \in RecordIds :
                          Matches(call, i) /\ job.before[i].activation = 0
                              => counts'.data[i].activation = 0 /\ ~Scheduled(job', i)
         ]_vars
    /\ [](Quiescent /\ hist.on =>
            \A i \in RecordIds :
                hist.rec[i].dr > InitialCount(i) + hist.rec[i].na
                    => counts.data[i].activation = 0)

\* The DF_FEATURE record was activated, then deactivated more often than
\* that: the last deactivate found it at 0.
C5_Witness ==
    /\ Quiescent
    /\ hist.rec[4].na >= 1
    /\ hist.rec[4].dr > hist.rec[4].na
    /\ counts.data[4].activation = 0
    /\ ~Evaluate(4, text)

\* C6: the unhook count never goes below 0; a rehook that matches a record
\* whose unhook count is 0 leaves it at 0; and a record that was unhooked and
\* then rehooked more times than it was ever unhooked has unhook 0.
C6_UnhookFloor ==
    /\ [](counts.data # <<>> => \A i \in RecordIds : counts.data[i].unhook >= 0)
    /\ [][ \A t \in Threads, call \in Calls :
               CounterStep(t, call, "rehook_all") =>
                   \A i \in RecordIds :
                       Matches(call, i) /\ job.before[i].unhook = 0
                           => counts'.data[i].unhook = 0
         ]_vars
    /\ [](Quiescent /\ hist.on =>
            \A i \in RecordIds :
                hist.rec[i].rr > hist.rec[i].nu => counts.data[i].unhook = 0)

\* The DF_OPT record was unhooked, then rehooked more often than that.
C6_Witness ==
    /\ Quiescent
    /\ hist.rec[1].nu >= 1
    /\ hist.rec[1].rr > hist.rec[1].nu
    /\ counts.data[1].unhook = 0

\* The step in which the lock holder's amortize run makes the callback cb on
\* record i, and the callback returns.
CallbackStep(cb, i) ==
    /\ patch_lock # NoThread
    /\ job.cb = cb
    /\ job.sched # <<>>
    /\ Head(job.sched) = CbEvent(i)
    /\ job'.sched = Tail(job.sched)

\* C7: an activate, by regex or by kind, leaves the activation count and the
\* instruction of every matched record with unhook > 0 as they are; on a
\* matched record with unhook 0 (rehooks may have brought it there) it
\* increments the activation count, and turns the flag on when the count
\* was 0.
C7_UnhookedNotActivated ==
    [][ /\ OnlyScheduledWrites
        /\ \A t \in Threads, call \in Calls :
               CounterStep(t, call, "activate_all") =>
                   \A i \in RecordIds :
                       Matches(call, i) =>
                           IF job.before[i].unhook > 0
                           THEN /\ counts'.data[i] = job.before[i]
                                /\ ~Scheduled(job', i)
                           ELSE /\ counts'.data[i].activation = job.before[i].activation + 1
                                /\ job.before[i].activation = 0 =>
                                       Scheduled(job', i) /\ job'.cb = "activate"
        /\ \A i \in RecordIds : CallbackStep("activate", i) => Evaluate(i, text')
      ]_vars

\* An activate of every record is under way: the DF_FEATURE record is
\* unhooked and stays off with count 0, the DF_OPT record is hooked, counts 1
\* and is about to be turned on.
C7_Witness ==
    /\ patch_lock # NoThread
    /\ job.cb = "activate" /\ job.r = NRecords
    /\ counts.data[4].unhook > 0 /\ counts.data[4].activation = 0
    /\ ~Scheduled(job, 4) /\ ~Evaluate(4, text)
    /\ counts.data[1].unhook = 0 /\ counts.data[1].activation = 1
    /\ Scheduled(job, 1)

\* C8: a record that was never unhooked and has received n activations in
\* all, the initial one included, and after them k deactivations, is on with
\* count n - k when k < n and off when k = n.
C8_ActivationsCounted ==
    Quiescent /\ hist.on =>
        \A i \in RecordIds :
            LET n == InitialCount(i) + hist.rec[i].na
                k == hist.rec[i].nd
            IN  hist.rec[i].nu = 0 /\ hist.rec[i].dr = k =>
                    /\ k < n => Evaluate(i, text) /\ counts.data[i].activation = n - k
                    /\ k = n => ~Evaluate(i, text) /\ counts.data[i].activation = 0

\* A DF_DEFAULT record was activated once more, then deactivated twice: it
\* is off; the DF_FEATURE record next to it was deactivated once and is on.
C8_Witness ==
    /\ Quiescent
    /\ hist.rec[2].nu = 0 /\ hist.rec[2].na = 1
    /\ hist.rec[2].nd = 2 /\ hist.rec[2].dr = 2
    /\ ~Evaluate(2, text)

\* C9: a deactivate decrements the activation count of a matched record with
\* unhook > 0 and activation > 0 as it does for a hooked one, and turns the
\* flag off when the count reaches 0.
C9_DeactivateWhenUnhooked ==
    [][ /\ \A t \in Threads, call \in Calls :
               CounterStep(t, call, "deactivate_all") =>
                   \A i \in RecordIds :
                       /\ Matches(call, i)
                       /\ job.before[i].unhook > 0
                       /\ job.before[i].activation > 0
                       => /\ counts'.data[i].activation = job.before[i].activation - 1
                          /\ counts'.data[i].unhook = job.before[i].unhook
                          /\ job.before[i].activation = 1 =>
                                 Scheduled(job', i) /\ job'.cb = "deactivate"
        /\ \A i \in RecordIds : CallbackStep("deactivate", i) => ~Evaluate(i, text')
      ]_vars

\* A deactivate is about to turn off a DF_DEFAULT flag that is unhooked.
C9_Witness ==
    /\ patch_lock # NoThread
    /\ job.cb = "deactivate"
    /\ job.sched # <<>> /\ Head(job.sched) = CbEvent(2)
    /\ counts.data[2].unhook > 0 /\ counts.data[2].activation = 0
    /\ Evaluate(2, text)

\* C10: unhook adds one to the unhook count of every matched record,
\* whatever its state, and rehook takes one from it when it is positive; no
\* other counter, no instruction and no page protection changes, and no
\* callback is scheduled.
C10_UnhookRehookFrame ==
    [][ /\ \A t \in Threads, call \in Calls :
               /\ CounterStep(t, call, "unhook_all") =>
                      \A i \in RecordIds :
                          /\ counts'.data[i].activation = job.before[i].activation
                          /\ counts'.data[i].unhook =
                                 IF Matches(call, i) THEN job.before[i].unhook + 1
                                 ELSE job.before[i].unhook
               /\ CounterStep(t, call, "rehook_all") =>
                      \A i \in RecordIds :
                          /\ counts'.data[i].activation = job.before[i].activation
                          /\ counts'.data[i].unhook =
                                 IF Matches(call, i) /\ job.before[i].unhook > 0
                                 THEN job.before[i].unhook - 1
                                 ELSE job.before[i].unhook
               /\ CounterStep(t, call, "unhook_all") \/ CounterStep(t, call, "rehook_all") =>
                      /\ job'.sched = <<>> /\ job'.cb = "none"
                      /\ text' = text /\ prot' = prot
                      /\ counts'.size = counts.size
        /\ patch_lock # NoThread /\ job.phase = "patch" /\ job.cb = "none" =>
               counts' = counts /\ text' = text /\ prot' = prot
      ]_vars

\* An unhook has just taken a DF_DEFAULT record that is on from unhook count
\* 1 to 2; the DF_OPT record it did not match is still hooked.
C10_Witness ==
    /\ patch_lock # NoThread
    /\ job.phase = "patch" /\ job.cb = "none" /\ ~job.void
    /\ job.r = 3
    /\ counts.data[2].unhook = 2 /\ counts.data[2].activation > 0
    /\ Evaluate(2, text)
    /\ counts.data[1].unhook = 0

\* C11 as stated: a counter at its maximum 64-bit value stays there when it
\* is incremented, so an activate never takes an activation count from
\* nonzero to 0 and an unhook never takes an unhook count from nonzero to 0.
C11_Original ==
    [][ /\ WideActivate /\ wide.unhook = U64(0) =>
               /\ wide.activation = UINT64_MAX => wide'.activation = UINT64_MAX
               /\ wide.activation # U64(0) => wide'.activation # U64(0)
        /\ WideUnhook =>
               /\ wide.unhook = UINT64_MAX => wide'.unhook = UINT64_MAX
               /\ wide.unhook # U64(0) => wide'.unhook # U64(0)
      ]_vars

\* C12 as stated: a controller call made before the library is initialized
\* does not fail: it gets past patch_list_create, and when it takes the lock
\* it builds the counter store and starts the initial pass, after which it
\* goes on to its own counter loop.
C12_Original ==
    [][ \A t \in Threads :
            /\ CtlEnter(t) /\ counts.data = <<>> =>
                   status' = "running" /\ pc'[t] = "ctl"
            /\ pc[t] = "ctl" /\ pc'[t] = "locked" /\ counts.data = <<>> =>
                   /\ counts'.data # <<>>
                   /\ job'.phase = "init" /\ job'.fn # "init_lib"
      ]_vars

\* C13: an init_lib call on an initialized library changes no activation
\* count, no unhook count, no instruction and no page protection, from its
\* lock() to its unlock(), whatever calls came before it.
C13_InitLibIdempotent ==
    [][ /\ \A t \in Threads :
               InitLib(t) /\ counts.data # <<>> =>
                   /\ counts' = counts /\ text' = text /\ prot' = prot
                   /\ job'.sched = <<>> /\ job'.phase = "patch" /\ job'.void
        /\ patch_lock # NoThread /\ job.void /\ job.phase = "patch" =>
               /\ counts' = counts /\ text' = text /\ prot' = prot
               /\ patch_lock' = NoThread
      ]_vars

\* A second init_lib is between lock() and unlock(), after calls that have
\* turned the DF_FEATURE flag on and unhooked the DF_OPT flag.
C13_Witness ==
    /\ patch_lock # NoThread
    /\ job.void /\ job.phase = "patch"
    /\ counts.data[4].activation = 1 /\ Evaluate(4, text)
    /\ counts.data[1].unhook = 1

\* C14: whatever threads make the first calls, the counter store, once
\* allocated, is never replaced or resized, the initial pass starts only
\* from a NULL store, default_patch runs only in that pass, and no
\* controller's counter loop runs before the pass is over.
C14_InitOnce ==
    [][ /\ counts.data # <<>> =>
               /\ counts'.data # <<>>
               /\ Len(counts'.data) = Len(counts.data)
        /\ counts.size # 0 => counts'.size = counts.size
        /\ job'.phase = "alloc" /\ job.phase # "alloc" =>
               counts.data = <<>> /\ counts.size = 0
        /\ job'.phase = "init" /\ job.phase # "init" =>
               job.phase = "alloc" /\ counts'.size = Len(counts'.data)
        /\ \A i \in RecordIds :
               CallbackStep("default_patch", i) => job.phase = "init"
        /\ job.phase = "init" /\ counts'.data # counts.data =>
               \E i \in RecordIds : CallbackStep("default_patch", i)
      ]_vars

\* One thread is in the initial pass of its first call while the other,
\* also in its first call, waits for the lock.
C14_Witness ==
    /\ patch_lock = "t1"
    /\ job.phase = "init" /\ job.sched # <<>>
    /\ pc["t2"] = "ctl"

\* The instructions agree with the counters of every record.
Consistent ==
    \A i \in RecordIds :
        (text[i].opcode = DYNAMIC_FLAG_VALUE_ACTIVE)
            <=> ((counts.data[i].activation > 0) # (patch_record(i).flipped # 0))

\* C15: controller calls run one at a time.  The lock passes from thread to
\* thread only through unlock; counters, instructions, page protections
\* and the batch change only in steps of the lock holder; a call that takes
\* the lock finds no batch in progress and the instructions in agreement
\* with the counters; and a call unlocks only when its batch is applied.
C15_Serialized ==
    [][ /\ patch_lock # NoThread /\ patch_lock' # NoThread => patch_lock' = patch_lock
        /\ counts' # counts \/ text' # text \/ prot' # prot \/ job' # job =>
               \/ patch_lock = NoThread /\ patch_lock' # NoThread
               \/ patch_lock # NoThread /\ pc[patch_lock] = "locked"
        /\ patch_lock = NoThread /\ patch_lock' # NoThread =>
               /\ job = NoJob
               /\ counts.data # <<>> => Consistent
        /\ patch_lock # NoThread /\ patch_lock' = NoThread =>
               job.sched = <<>> /\ Consistent'
      ]_vars

\* A batch is half applied (a counter says on, the instruction still says
\* off) while the other thread, inside a controller call, waits for the lock.
C15_Witness ==
    /\ patch_lock = "t1"
    /\ job.phase = "patch" /\ job.cb = "activate" /\ job.sched # <<>>
    /\ pc["t2"] = "ctl"
    /\ counts.data[4].activation > 0 /\ ~Evaluate(4, text)

\* C16: in every state, in the middle of the initial pass or of a batch
\* included, the opcode byte of every hook is the ACTIVE or the INACTIVE
\* encoding.
C16_TwoEncodings ==
    \A i \in RecordIds :
        \/ text[i].opcode = DYNAMIC_FLAG_VALUE_ACTIVE
        \/ text[i].opcode = DYNAMIC_FLAG_VALUE_INACTIVE

\* A deactivate batch is between two records of one page: one is already
\* off, the next still on, while another thread is free to evaluate them.
C16_Witness ==
    /\ patch_lock = "t1"
    /\ job.cb = "deactivate"
    /\ job.sched # <<>> /\ Head(job.sched) = CbEvent(3)
    /\ ~Evaluate(2, text) /\ Evaluate(3, text)
    /\ pc["t2"] = "idle"

\* Record i is selected by the entry point `call`.  By kind: it belongs to
\* the kind's sub-table, and the pattern is NULL or matches its name,
\* anchored as compile_regex anchors it.  By regex: the pattern matches its
\* name; a NULL regex selects nothing (it never gets past regcomp).
Selected(call, i) ==
    IF call.op \in {"activate_kind", "deactivate_kind"}
    THEN /\ Sites[i].kind = call.kind
         /\ \/ call.pattern.null
            \/ regexec(compile_regex(call.pattern).prog, patch_record(i).name_doc)
    ELSE /\ ~call.pattern.null
         /\ regexec(compile_regex(call.pattern).prog, patch_record(i).name_doc)

SelectedOf == [call \in AllCalls |-> {i \in RecordIds : Selected(call, i)}] @@ <<>>

\* C17: a controller call whose pattern compiles returns the number of
\* records its selector matches, whatever their counters and however many
\* instructions the call rewrites.
C17_ReturnsMatched ==
    [][ /\ \A t \in Threads, call \in Calls :
               pc[t] = "ctl" /\ pc'[t] = "locked" /\ CtlLock(t, call) =>
                   job'.r = Cardinality(SelectedOf[call]) /\ ~job'.void
        /\ patch_lock # NoThread /\ patch_lock' # NoThread => job'.r = job.r
        /\ patch_lock # NoThread /\ patch_lock' = NoThread /\ ~job.void =>
               ret' = [t |-> patch_lock, v |-> job.r]
      ]_vars

\* An activate of all six records, of which one is unhooked and three are
\* already on, is done rewriting the instructions of the other two and
\* about to return 6.
C17_Witness ==
    /\ patch_lock # NoThread
    /\ job.phase = "patch" /\ job.cb = "activate" /\ job.sched = <<>>
    /\ job.r = NRecords
    /\ counts.data[4].unhook > 0 /\ counts.data[4].activation = 0
    /\ counts.data[1].activation = 1
    /\ counts.data[2].activation = 2

\* The pattern is one regcomp accepts once compile_regex has anchored it.
Compiles(pattern) == regcomp(compile_regex(pattern).prog) = 0

\* The call of thread t ends in this step with a negative value, and nothing
\* the library keeps has changed: no counter, no instruction, no page
\* protection, and no state was handed to a list_state callback.
ReturnsError(t) ==
    /\ ret'.t = t /\ ret'.v < 0
    /\ pc'[t] = "idle"
    /\ counts' = counts /\ text' = text /\ prot' = prot
    /\ patch_lock' = patch_lock
    /\ lst'.out = lst.out

\* C18: when the pattern does not compile, the step a controller call
\* (by regex or by kind) takes after its finder, and the step
\* dynamic_flag_list_state takes, return a negative value and leave every
\* activation count, unhook count, hook instruction and page protection
\* as it was; the callback gets no state.
C18_InvalidPatternNoEffect ==
    [][\A t \in Threads :
          /\ \A call \in ListCalls :
                 /\ ~call.pattern.null
                 /\ ~Compiles(call.pattern)
                 /\ pc[t] = "ctl"
                 /\ (CtlFail(t, call) \/ CtlLock(t, call))
                 => ReturnsError(t)
          /\ \A pattern \in ListPatterns :
                 /\ ~Compiles(pattern)
                 /\ counts.size > 0
                 /\ pc[t] = "idle"
                 /\ ListEnter(t, pattern)
                 => ReturnsError(t)
      ]_vars

\* A call with a pattern that does not compile has returned -1 to t2 while
\* t1 is in the middle of a listing that has already reported a state, and
\* after an earlier call unhooked on:printf1.
C18_Witness ==
    /\ ret = [t |-> "t2", v |-> -1]
    /\ lst.t = "t1" /\ lst.out # <<>>
    /\ counts.data # <<>> /\ counts.data[2].unhook > 0

\* The pattern, as the caller wrote it, matches a substring of record i's
\* full name that starts at the name's first character.
MatchesFromStart(pattern, i) ==
    \E alt \in Alternatives(pattern.s) : MatchAt(alt, patch_record(i).name_doc, 1)

\* C19: patterns are anchored at the beginning of the flag name and not at
\* its end: whatever the pattern, with or without a leading "^", a record
\* is on the list a controller call or dynamic_flag_list_state works on
\* only if the pattern matches a substring that starts at the first
\* character of the record's full name; "on:printf3" does not select
\* test:on:printf3@f.c:36, ".*on:printf3" does, and "on:" selects names
\* that go on after the match.
C19_Original ==
    [][\A t \in Threads :
          /\ \A call \in ListCalls :
                 ~call.pattern.null /\ pc[t] = "ctl" /\ CtlLock(t, call) =>
                     \A i \in RecordIds :
                         Matches(call, i) => MatchesFromStart(call.pattern, i)
          /\ \A pattern \in ListPatterns :
                 pc[t] = "idle" /\ ListEnter(t, pattern) /\ pc'[t] = "list" =>
                     /\ \A k \in 1 .. Len(lst'.acc) :
                            MatchesFromStart(pattern, lst'.acc[k])
                     /\ pattern = Pat(<<"on", ":", "printf3">>) => lst'.acc = <<>>
                     /\ pattern = Pat(<<".*", "on", ":", "printf3">>) => lst'.acc = <<1>>
                     /\ pattern = Pat(<<"on", ":">>) => Len(lst'.acc) = 3
      ]_vars

\* The calls by kind.
KindCalls == {call \in Calls : call.op \in {"activate_kind", "deactivate_kind"}}

\* C20: activate_kind and deactivate_kind work on the records of the given
\* kind only: every record of the kind (whose full name matches, when a
\* pattern is given) gets the activation or deactivation, and every other
\* record keeps its two counters, gets no callback scheduled, and so keeps
\* its instruction until the call returns.
C20_KindFrame ==
    [][ /\ OnlyScheduledWrites
        /\ \A t \in Threads, call \in KindCalls :
               CounterStep(t, call, AllFn(call.op)) =>
                   /\ text' = text
                   /\ \A i \in RecordIds :
                          IF Sites[i].kind = call.kind
                             /\ (call.pattern.null
                                 \/ MatchesFromStart(call.pattern, i))
                          THEN /\ counts'.data[i].unhook = job.before[i].unhook
                               /\ counts'.data[i].activation =
                                      IF call.op = "activate_kind"
                                      THEN (IF job.before[i].unhook > 0
                                            THEN job.before[i].activation
                                            ELSE job.before[i].activation + 1)
                                      ELSE (IF job.before[i].activation > 0
                                            THEN job.before[i].activation - 1
                                            ELSE 0)
                          ELSE /\ counts'.data[i] = job.before[i]
                               /\ ~Scheduled(job', i)
        /\ patch_lock # NoThread /\ patch_lock' = patch_lock /\ job'.phase = job.phase =>
               \A i \in RecordIds : Scheduled(job', i) => Scheduled(job, i)
      ]_vars

\* An activate_kind of the kind `feature_flag` is about to turn on its only
\* record, feature_flag:default_off; on:printf1, which an earlier deactivate
\* turned off, and test:on:printf3 are as they were.
C20_Witness ==
    /\ patch_lock # NoThread
    /\ job.phase = "patch" /\ job.cb = "activate" /\ job.r = 1
    /\ Scheduled(job, 4)
    /\ counts.data[4].activation = 1
    /\ counts.data[2].activation = 0 /\ ~Evaluate(2, text)
    /\ counts.data[1].activation = 0 /\ ~Evaluate(1, text)

\* The counters a record with counters c has after the counter loop of fn
\* has passed over it once.
Accounted(fn, c) ==
    CASE fn = "activate_all" ->
            IF c.unhook > 0 THEN c ELSE [c EXCEPT !.activation = @ + 1]
      [] fn = "deactivate_all" ->
            IF c.activation > 0 THEN [c EXCEPT !.activation = @ - 1] ELSE c
      [] fn = "unhook_all" -> [c EXCEPT !.unhook = @ + 1]
      [] fn = "rehook_all" ->
            IF c.unhook > 0 THEN [c EXCEPT !.unhook = @ - 1] ELSE c

\* C21: each record is accounted for on its own: the counter loop of a
\* controller call gives every record the selector matches the update its
\* own counters call for, whether or not other matched records were skipped,
\* leaves every unmatched record's counters alone and schedules no callback
\* for it, and instructions change only through scheduled callbacks.
C21_IndependentAccounting ==
    [][ /\ OnlyScheduledWrites
        /\ \A t \in Threads, call \in Calls :
               CounterStep(t, call, AllFn(call.op)) =>
                   /\ text' = text
                   /\ \A i \in RecordIds :
                          IF i \in SelectedOf[call]
                          THEN counts'.data[i] = Accounted(AllFn(call.op), job.before[i])
                          ELSE counts'.data[i] = job.before[i] /\ ~Scheduled(job', i)
        /\ patch_lock # NoThread /\ patch_lock' = patch_lock /\ job.phase = "patch" =>
               /\ counts' = counts
               /\ \A i \in RecordIds : Scheduled(job', i) => Scheduled(job, i)
      ]_vars

\* An activate of all six records has passed over the unhooked
\* feature_flag record, fourth in the batch, and has counted the activation
\* of the records before and after it.
C21_Witness ==
    /\ patch_lock # NoThread
    /\ job.phase = "patch" /\ job.cb = "activate" /\ job.r = NRecords
    /\ counts.data[4].unhook > 0 /\ counts.data[4].activation = 0
    /\ ~Scheduled(job, 4)
    /\ counts.data[1].activation = 1 /\ Scheduled(job, 1)
    /\ counts.data[5].activation = 2

\* The matched records that the counter loop of fn takes across the
\* boundary between off and on.
NetChanges(call, data) ==
    {i \in SelectedOf[call] :
        IF AllFn(call.op) = "activate_all"
        THEN data[i].unhook = 0 /\ data[i].activation = 0
        ELSE data[i].activation = 1}

\* The records that have a callback in the run sched, one entry per callback.
Callbacks(sched) == SelectSeq(sched, LAMBDA e : e.ev = "cb")

\* C22: only net changes are patched.  The amortize run of an activate has
\* one callback for each matched record that was hooked with activation 0,
\* the run of a deactivate one for each matched record with activation 1,
\* and no other; each callback rewrites its record's instruction; a call
\* with no such record makes no mprotect call and writes no instruction.
C22_NetChangesOnly ==
    [][ /\ OnlyScheduledWrites
        /\ \A t \in Threads, call \in Calls :
               AllFn(call.op) \in {"activate_all", "deactivate_all"}
               /\ CounterStep(t, call, AllFn(call.op)) =>
                   LET net == NetChanges(call, job.before)
                   IN  /\ \A i \in RecordIds : Scheduled(job', i) <=> i \in net
                       /\ Len(Callbacks(job'.sched)) = Cardinality(net)
                       /\ net = {} => job'.sched = <<>>
                       /\ text' = text /\ prot' = prot
        /\ ( /\ patch_lock # NoThread /\ job.phase = "patch"
             /\ job.sched # <<>> /\ Head(job.sched).ev = "cb"
             /\ job' # job )
           => text'[Head(job.sched).a] # text[Head(job.sched).a]
        /\ patch_lock # NoThread /\ job.sched = <<>> =>
               text' = text /\ prot' = prot
      ]_vars

\* An activate of the three on: records, all of them on already, has counted
\* them and has nothing to patch.
C22_Witness ==
    /\ patch_lock # NoThread
    /\ job.phase = "patch" /\ job.cb = "activate" /\ job.r = 3
    /\ job.sched = <<>>
    /\ \A i \in {2, 3, 5} : counts.data[i].activation = 2 /\ counts.data[i].unhook = 0
    /\ \A p \in Pages : prot[p] = "rx"

\* Page p is in the range of the mprotect call e.
Covers(e, p) == e.a <= p * PageSize /\ p * PageSize < e.a + e.b

\* C23: pages are writable only inside a batch, and each writable range has
\* its restore pending.  When the patch lock is free every page is
\* read+execute; while it is held, the next mprotect the holder makes on a
\* writable page is the one that sets it back to read+execute.
C23_WritablePaired ==
    /\ patch_lock = NoThread => \A p \in Pages : prot[p] = "rx"
    /\ patch_lock # NoThread =>
           \A p \in Pages :
               prot[p] = "rwx" =>
                   \E k \in 1 .. Len(job.sched) :
                       /\ job.sched[k].ev = "rx" /\ Covers(job.sched[k], p)
                       /\ \A m \in 1 .. k - 1 : job.sched[m].ev = "cb"

\* Both threads are outside the lock after batches that turned the
\* feature flag on and the three on: flags off.
C23_Witness ==
    /\ patch_lock = NoThread /\ counts.data # <<>>
    /\ Evaluate(4, text)
    /\ ~Evaluate(2, text) /\ ~Evaluate(3, text)
    /\ \A p \in Pages : prot[p] = "rx"

\* A byte of the hook of record i lies on page p.
HookOnPage(i, p) ==
    \E b \in patch_record(i).hook .. patch_record(i).hook + HOOK_SIZE - 1 :
        b \div PageSize = p

\* C24: amortize makes a page writable only if it holds a byte of a hook
\* that is patched in the same run: every page in the range of an mprotect
\* to read+write+execute has such a hook among the callbacks that follow
\* the call, so hooks separated by hook-free pages are never under one
\* writable range.
C24_Original ==
    \A k \in 1 .. Len(job.sched) :
        job.sched[k].ev = "rwx" =>
            \A p \in Pages :
                Covers(job.sched[k], p) =>
                    \E m \in k + 1 .. Len(job.sched) :
                        /\ \A n \in k + 1 .. m : job.sched[n].ev = "cb"
                        /\ HookOnPage(job.sched[m].a, p)

\* The instruction at the hook of record i is not one the library wrote or
\* the assembler emitted: the opcode byte is neither encoding, or the
\* operand is not the distance from the end of the instruction to the
\* destination.
CorruptPatchTarget(i, txt) ==
    \/ txt[i].opcode \notin {DYNAMIC_FLAG_VALUE_ACTIVE, DYNAMIC_FLAG_VALUE_INACTIVE}
    \/ txt[i].rel32 # Sites[i].label - (Sites[i].hook + 5)

\* Jump style: when the callback of a batch comes to a hook whose opcode
\* byte is neither encoding, or whose operand is not destination -
\* (hook + 5), the step is the abort and no instruction byte changes.
JumpCorruptAborts ==
    patch_lock # NoThread /\ status = "running"
    /\ job.sched # <<>> /\ Head(job.sched).ev = "cb"
    /\ CorruptPatchTarget(Head(job.sched).a, text)
    => status' = "aborted" /\ text' = text /\ job' = job

\* The immediate of the movb at the hook is neither value.
CorruptImmediate(bytes) ==
    bytes[ImmIndex(bytes)] \notin {DYNAMIC_FLAG_VALUE_ACTIVE_1,
                                   DYNAMIC_FLAG_VALUE_INACTIVE_1}

\* Immediate style: when patch or unpatch comes to a hook whose immediate
\* is neither value, the step is the abort and no byte of the hook changes.
ImmediateCorruptAborts ==
    movb # NoMovb /\ status = "running" /\ CorruptImmediate(movb)
    => status' = "aborted" /\ movb' = movb

\* The jump style on its own: a corrupt hook aborts every batch that reaches it.
JumpStyleCorruptAborts == [][JumpCorruptAborts]_vars

\* C25: when the byte at a hook is neither the ACTIVE nor the INACTIVE
\* encoding (the opcode byte in the jump style, where the operand must also
\* be destination - (hook + 5); the immediate byte in the immediate style),
\* patching that record aborts the process and no byte of the hook is
\* written.
C25_Original ==
    [][JumpCorruptAborts /\ ImmediateCorruptAborts]_vars

\* The process has aborted in an activate batch, at the callback for the
\* feature_flag record, whose operand was overwritten after the initial
\* pass; the opcode byte is still the inactive one.
JumpStyleAbortReached ==
    /\ status = "aborted"
    /\ job.phase = "patch" /\ job.cb = "activate"
    /\ job.sched # <<>> /\ Head(job.sched) = CbEvent(4)
    /\ CorruptPatchTarget(4, text)
    /\ text[4].opcode = DYNAMIC_FLAG_VALUE_INACTIVE
    /\ prot[patch_record(4).hook \div PageSize] = "rwx"

\* The records whose full name the pattern, anchored by compile_regex,
\* matches.
ListSelected(pattern) ==
    {i \in RecordIds : regexec(compile_regex(pattern).prog, patch_record(i).name_doc)}

ListSelectedOf == [p \in ListPatterns |-> ListSelected(p)] @@ <<>>

CompilesOf == [p \in ListPatterns |-> Compiles(p)] @@ <<>>

\* The records on the list acc.
Range(acc) == {acc[k] : k \in 1 .. Len(acc)}

\* How far a listing has got: its thread, list, position and the states
\* handed to the callback so far.
Listing(l) == [t |-> l.t, acc |-> l.acc, i |-> l.i, out |-> l.out]

\* C26: dynamic_flag_list_state returns -1 without a callback when the
\* pattern does not compile; otherwise it hands the matched records to the
\* callback one by one in the order of its sorted list, each once; the first
\* non-zero value the callback returns ends the call and is its result, with
\* no callback after it; and when the callback has returned 0 for every
\* matched record the result is their number.
C26_ListProtocol ==
    [][\A t \in Threads :
          /\ \A pattern \in ListPatterns :
                 ( /\ pc[t] = "idle" /\ counts.size > 0
                   /\ (pc'[t] = "list" \/ ret'.t = t)
                   /\ ListEnter(t, pattern) ) =>
                     IF CompilesOf[pattern]
                     THEN /\ pc'[t] = "list"
                          /\ lst'.t = t /\ lst'.i = 0 /\ lst'.out = <<>>
                          /\ Range(lst'.acc) = ListSelectedOf[pattern]
                          /\ Len(lst'.acc) = Cardinality(ListSelectedOf[pattern])
                     ELSE ret' = [t |-> t, v |-> -1] /\ pc'[t] = "idle" /\ lst' = lst
          /\ pc[t] = "list" /\ lst.t = t /\ Listing(lst') # Listing(lst) =>
                 \/ /\ lst.i < Len(lst.acc)
                    /\ pc'[t] = "list" /\ ret' = NoRet
                    /\ lst'.t = t /\ lst'.acc = lst.acc /\ lst'.i = lst.i + 1
                    /\ Len(lst'.out) = lst'.i
                    /\ SubSeq(lst'.out, 1, lst.i) = lst.out
                    /\ lst'.out[lst'.i].hook = patch_record(lst.acc[lst'.i]).hook
                 \/ /\ lst.i < Len(lst.acc)
                    /\ pc'[t] = "idle" /\ lst' = NoList
                    /\ ret'.t = t /\ ret'.v # 0 /\ ret'.v \in CbReturns
                 \/ /\ lst.i = Len(lst.acc)
                    /\ pc'[t] = "idle" /\ lst' = NoList
                    /\ ret' = [t |-> t, v |-> Len(lst.acc)]
      ]_vars

\* Thread t1 has got 6 from a listing of all the flags: the callback returned
\* 0 six times; on:printf1 had been unhooked before.
C26_Witness ==
    /\ ret = [t |-> "t1", v |-> NRecords]
    /\ lst = NoList /\ pc["t1"] = "idle"
    /\ counts.data # <<>> /\ counts.data[2].unhook > 0

\* The name of record a up to the line number: kind:name@file and the colon.
NamePrefix(a) == SubSeq(CString(a.name_doc), 1, strrchr(CString(a.name_doc), 58))

\* Record a may come before record b in a listing: a's name prefix is the
\* smaller one; or the prefixes are the same and a has a docstring and b
\* has none, or a's docstring is the longer one, or the docstrings are as
\* long as each other (or absent) and a's line number is not the larger.
ListedBefore(a, b) ==
    IF NamePrefix(a) # NamePrefix(b)
    THEN strcmp(NamePrefix(a), NamePrefix(b)) < 0
    ELSE IF (a.doc = <<>>) # (b.doc = <<>>)
    THEN a.doc # <<>>
    ELSE IF Len(CString(a.doc)) # Len(CString(b.doc))
    THEN Len(CString(a.doc)) > Len(CString(b.doc))
    ELSE a.line <= b.line

\* C27: the sorted list that dynamic_flag_list_state reports from is
\* ordered by the name prefix up to the line number; among records with the
\* same prefix one with a docstring is before one without, a longer
\* docstring before a shorter one, and otherwise the smaller line number,
\* compared as a number, is first.
C27_ListOrder ==
    srt.phase = "loop" =>
        \A k, m \in 1 .. Len(srt.acc) :
            k < m => ListedBefore(SortRecord(srt.acc[k]), SortRecord(srt.acc[m]))

\* The three records on:printf1@f.c without the longest docstring have been
\* sorted: the one with a docstring and line 100 first, then line 9, then
\* line 21.
C27_Witness ==
    /\ srt.phase = "loop"
    /\ srt.acc = <<4, 3, 2>>
    /\ srt.i = 3

\* C28: in an enumeration, whatever the set of matched records, the
\* duplicate flag of an entry is true exactly when an entry reported before
\* it has the same full name: false for the first entry of each name, true
\* for every later one.
C28_Original ==
    \A k \in 1 .. Len(srt.out) :
        srt.out[k].duplicate <=>
            \E m \in 1 .. k - 1 : srt.out[m].name = srt.out[k].name

\* The orders qsort may leave each sorted list of the program in.
QsortOf ==
    [acc \in UNION {SortedOf[p] : p \in ListPatterns} |-> qsort_alpha(acc, NameDocs)] @@ <<>>

\* What the statement compares of an entry: its place, strings, counters and
\* duplicate flag (not the addresses of the copy it was made from).
EntryView(state) ==
    [name |-> state.name, doc |-> state.doc, activation |-> state.activation,
     unhook |-> state.unhook, duplicate |-> state.duplicate]

\* C29: listing is deterministic.  The sequence of entries is fixed by the
\* record table, the pattern and the counters the controller calls made so
\* far have left: whichever order qsort leaves records that compare equal
\* in, a callback of a listing that no other library call has overlapped
\* gets the same name, docstring, counters and duplicate flag at the same
\* place of the listing.
C29_ListDeterministic ==
    [][\A t \in Threads :
          ( /\ pc[t] = "list" /\ pc'[t] = "list" /\ lst.t = t
            /\ lst'.i = lst.i + 1
            /\ lst.alone ) =>
              \A sorted \in QsortOf[lst.acc] :
                  EntryView(dynamic_flag_state(sorted, lst'.i, counts.data[sorted[lst'.i]]))
                      = EntryView(lst'.out[lst'.i])
      ]_vars

\* A listing that ran on its own has reported both copies of on:printf1,
\* which qsort may leave in either order, both unhooked and the second as a
\* duplicate, and then on:printf2.
C29_Witness ==
    /\ lst.t # NoThread /\ lst.alone /\ lst.i = 3 /\ Len(lst.acc) = 3
    /\ Cardinality(QsortOf[lst.acc]) = 2
    /\ ~lst.out[1].duplicate /\ lst.out[2].duplicate
    /\ lst.out[1].name = lst.out[2].name
    /\ lst.out[1].hook # lst.out[2].hook
    /\ lst.out[1].unhook > 0 /\ lst.out[2].unhook > 0

\* Records i and j are expansion sites of one flag: their full names are
\* the same string.
SameName(i, j) ==
    i # j /\ strcmp(CString(patch_record(i).name_doc), CString(patch_record(j).name_doc)) = 0

SameNamePairs == {p \in RecordIds \X RecordIds : SameName(p[1], p[2])}

\* The pairs of records that every call has both or neither of on its list.
MatchedTogether ==
    {p \in RecordIds \X RecordIds :
        \A call \in Calls : Matches(call, p[1]) <=> Matches(call, p[2])}

\* C30: records with the same full name are toggled as a unit.  Every call,
\* by regex or by kind, has both or neither on its list; whenever no call is
\* inside its batch they have the same activation count and the same unhook
\* count and their expressions have the same value; and each has its own
\* hook instruction.
C30_SameNameAsUnit ==
    \A p \in SameNamePairs :
        LET i == p[1]
            j == p[2]
        IN  /\ p \in MatchedTogether
            /\ Quiescent =>
                   /\ counts.data[i] = counts.data[j]
                   /\ Evaluate(i, text) = Evaluate(j, text)
            /\ patch_record(i).hook # patch_record(j).hook
            /\ text[i].rel32 =
                   patch_record(i).destination - (patch_record(i).hook + HOOK_SIZE)

\* Both sites of on:printf1 have been deactivated and then unhooked: they
\* are off with activation 0 and unhook 1, each with its own jump operand.
C30_Witness ==
    /\ Quiescent
    /\ SameName(2, 5)
    /\ counts.data[2] = [activation |-> 0, unhook |-> 1]
    /\ counts.data[5] = [activation |-> 0, unhook |-> 1]
    /\ ~Evaluate(2, text) /\ ~Evaluate(5, text)
    /\ text[2].rel32 # text[5].rel32

\* The pages the instruction at the hook of record i lies on: one page, or
\* two when the five bytes straddle a page boundary.
HookPages(i) == {p \in Pages : HookOnPage(i, p)}

\* The callbacks the lock holder makes before its next mprotect: the rest of
\* the section of amortize that is open.
OpenSection ==
    {k \in 1 .. Len(job.sched) : \A m \in 1 .. k : job.sched[m].ev = "cb"}

\* C31: every write to a hook byte happens while all pages of the hook's
\* instruction (both, when it straddles a page boundary) are in the range
\* most recently made writable and not yet restored: whenever the lock
\* holder is about to run callbacks, the mprotect that follows them restores
\* a range that holds every page of each of their hooks, and all those
\* pages are writable.
C31_WritesInsideWritableRange ==
    patch_lock # NoThread /\ status = "running" =>
        \A k \in OpenSection :
            /\ Len(job.sched) > Cardinality(OpenSection)
            /\ LET restore == job.sched[Cardinality(OpenSection) + 1]
               IN  /\ restore.ev = "rx"
                   /\ \A p \in HookPages(job.sched[k].a) :
                          Covers(restore, p) /\ prot[p] = "rwx"

\* An activate batch is about to write the hook of record 2, whose
\* instruction lies on pages 2 and 3; both are writable.
C31_Witness ==
    /\ patch_lock # NoThread
    /\ job.phase = "patch" /\ job.cb = "activate"
    /\ job.sched # <<>> /\ Head(job.sched) = CbEvent(2)
    /\ HookPages(2) = {2, 3}
    /\ prot[2] = "rwx" /\ prot[3] = "rwx"

\* The records the callbacks of the run sched are made on, in call order.
CalledOn(sched) == [k \in 1 .. Len(Callbacks(sched)) |-> Callbacks(sched)[k].a]

\* C32: for every list handed to amortize (sorted by hook address, of any
\* length from 0 up, with any layout of the hooks over pages) the callback
\* is made exactly once on every record, in list order: at every point of
\* the run the callbacks made so far followed by those still to make are the
\* list itself, and when amortize returns the callbacks made are the list.
C32_EveryRecordOnce ==
    amz.phase # "none" =>
        /\ CalledOn(amz.trace) \o CalledOn(amz.sched) = LayoutList(amz.hooks)
        /\ amz.phase = "done" => CalledOn(amz.trace) = LayoutList(amz.hooks)

\* amortize has returned from a list of three records, two with hooks on
\* page 1 and one on page 3, after a callback on each in turn.
C32_Witness ==
    /\ amz.phase = "done"
    /\ amz.hooks = <<PageSize, PageSize + HOOK_SIZE, 3 * PageSize + 1>>
    /\ CalledOn(amz.trace) = <<1, 2, 3>>

\* C33: every write to a counter slot and every write to a hook byte, those
\* of the initial pass included, is made by a thread that holds the patch
\* lock, and at most one thread holds the lock at a time: a step that
\* changes the counter store or an instruction is a step of the thread that
\* is between lock() and unlock() after it, and that thread either took the
\* free lock in this step or held it before; and a thread is between lock()
\* and unlock() exactly when it is the owner of the lock.
C33_WritesUnderLock ==
    [][ /\ counts' # counts \/ text' # text =>
               /\ patch_lock' # NoThread
               /\ pc'[patch_lock'] = "locked"
               /\ patch_lock = NoThread \/ patch_lock = patch_lock'
        /\ \A t \in Threads : pc'[t] = "locked" <=> patch_lock' = t
        /\ Cardinality({t \in Threads : pc'[t] = "locked"}) <= 1
      ]_vars

\* Thread t2 is in the middle of the initial pass, which has rewritten an
\* instruction, while thread t1 is inside a controller call, before lock().
C33_Witness ==
    /\ patch_lock = "t2" /\ pc["t2"] = "locked"
    /\ job.phase = "init" /\ job.sched # <<>>
    /\ pc["t1"] = "ctl"
    /\ \E i \in RecordIds : text[i] # AssembledText(i)

\* Thread t is inside a library call that takes the lock: past the entry,
\* not yet returned.
InCall(t) == pc[t] \in {"ctl", "locked"}

\* Every call in progress returns, and the lock is held exactly from lock()
\* to unlock(): it is released only by its owner, in the step in which the
\* owner returns, and a thread inside lock() .. unlock() takes no lock.
ReturnsOnceEntered ==
    /\ \A t \in Threads : InCall(t) ~> pc[t] = "idle"
    /\ [][ /\ patch_lock # NoThread /\ patch_lock' # patch_lock =>
                  /\ patch_lock' = NoThread
                  /\ pc[patch_lock] = "locked" /\ pc'[patch_lock] = "idle"
           /\ \A t \in Threads :
                  pc[t] = "locked" /\ pc'[t] # "locked" =>
                      patch_lock = t /\ patch_lock' = NoThread /\ pc'[t] = "idle"
         ]_vars

\* C34: under fair scheduling every controller call and every init_lib call
\* eventually returns, having released the patch lock exactly once for each
\* acquisition, and the initialization inside lock() never takes the lock
\* again: no call ends in an abort of the process, every call in progress
\* comes back to its caller, and the lock is released only by the returning
\* owner.
C34_Original ==
    /\ [](status = "running")
    /\ ReturnsOnceEntered

\* C35: a patch changes only the single opcode byte (jump style) or the
\* single immediate byte (immediate style) of the hook: in every step the
\* operand of every hook instruction is what it was and an opcode byte that
\* changes becomes one of the two encodings; at a movb hook every byte but
\* the immediate is what it was, and the immediate becomes one of the two
\* values.
C35_OnlyOneByte ==
    [][ /\ \A i \in RecordIds :
               /\ text'[i].rel32 = text[i].rel32
               /\ text'[i].opcode # text[i].opcode =>
                      text'[i].opcode \in {DYNAMIC_FLAG_VALUE_ACTIVE,
                                           DYNAMIC_FLAG_VALUE_INACTIVE}
        /\ movb # NoMovb =>
               /\ \A k \in 1 .. HOOK_SIZE_1 : k # ImmIndex(movb) => movb'[k] = movb[k]
               /\ movb'[ImmIndex(movb)] \in {DYNAMIC_FLAG_VALUE_ACTIVE_1,
                                             DYNAMIC_FLAG_VALUE_INACTIVE_1}
      ]_vars

\* After a controller call that turned the feature flag on: the opcode byte
\* of its hook is not the assembled one, the operand is.
C35_Witness ==
    /\ Quiescent
    /\ text[4].opcode = DYNAMIC_FLAG_VALUE_ACTIVE
    /\ text[4].opcode # AssembledText(4).opcode
    /\ text[4].rel32 = AssembledText(4).rel32
    /\ counts.data[4].activation = 1

\* C36: a batch is not atomic for the threads that evaluate flags.  Each
\* callback of an activate or deactivate batch gives its own flag the new
\* value and changes no other instruction; the flags whose callbacks are
\* still to come keep the old value, the opposite of what their counters
\* already say; and the lock stays held, which no evaluator waits for.  So
\* between two callbacks of one batch an evaluator sees one flag new and
\* another old.
C36_BatchNotAtomic ==
    [][ \A cb \in {"activate", "deactivate"}, i \in RecordIds :
            CallbackStep(cb, i) /\ status' = "running" =>
                /\ Evaluate(i, text') # Evaluate(i, text)
                /\ Evaluate(i, text') = (counts.data[i].activation > 0)
                /\ \A j \in RecordIds \ {i} : text'[j] = text[j]
                /\ \A j \in RecordIds :
                       Scheduled(job', j) =>
                           Evaluate(j, text') # (counts.data[j].activation > 0)
                /\ patch_lock' = patch_lock
      ]_vars

\* Thread t1 is inside a deactivate of every flag, between the callbacks on
\* the two hooks of on:printf1: the flag already evaluates false at the
\* first and still true at the second, and thread t2 is outside the
\* library, free to evaluate either.
C36_Witness ==
    /\ patch_lock = "t1" /\ pc["t2"] = "idle"
    /\ job.phase = "patch" /\ job.cb = "deactivate"
    /\ job.sched # <<>> /\ Head(job.sched) = CbEvent(2)
    /\ SameName(5, 2)
    /\ ~Evaluate(5, text) /\ Evaluate(2, text)
    /\ counts.data[5].activation = 0 /\ counts.data[2].activation = 0

\* Record i is on the list of the job j, whose counter loop is running: its
\* batch has not been handed to amortize yet.
InCounterLoop(j, i) ==
    j.phase = "count" /\ \E k \in 1 .. Len(j.acc) : j.acc[k] = i

\* C37: while the unhook count of a record is > 0 its activation count
\* never increases, whatever calls the threads interleave; and a record
\* with unhook > 0 whose activation is 0 and whose deactivation has been
\* applied (the running call is past its counter loop and no callback of
\* its batch is pending on the record) evaluates false, in every state
\* until its unhook count is 0 again.
C37_UnhookedStaysOff ==
    [][ counts.data # <<>> =>
            \A i \in RecordIds :
                /\ counts.data[i].unhook > 0 =>
                       counts'.data[i].activation <= counts.data[i].activation
                /\ /\ counts'.data[i].unhook > 0
                   /\ counts'.data[i].activation = 0
                   /\ ~Scheduled(job', i)
                   /\ ~InCounterLoop(job', i)
                   => ~Evaluate(i, text')
      ]_vars

\* Thread t2 is past the counter loop of an activate that matched the
\* feature flag alone and found nothing to patch: the flag is unhooked, its
\* activation count is 0 and it evaluates false; thread t1 is inside another
\* controller call.
C37_Witness ==
    /\ patch_lock = "t2" /\ pc["t1"] = "ctl"
    /\ job.phase = "patch" /\ job.cb = "activate"
    /\ job.r = 1 /\ job.sched = <<>>
    /\ counts.data[4].unhook > 0 /\ counts.data[4].activation = 0
    /\ ~Evaluate(4, text)

\* The counters and the instructions after an activate immediately followed
\* by a deactivate with the same selector, and after an unhook immediately
\* followed by a rehook.
ActivateDeactivate(w, txt) ==
    deactivate_all_wide(activate_all_wide(w, txt).wide, activate_all_wide(w, txt).text)

UnhookRehook(w, txt) ==
    rehook_all_wide(unhook_all_wide(w, txt).wide, unhook_all_wide(w, txt).text)

\* Round trips away from the top of the counters: for a hooked record whose
\* instruction agrees with its activation count, and whose count is below
\* the maximum 64-bit value, activate then deactivate restores the count
\* and the instruction; unhook then rehook restores an unhook count below
\* the maximum; neither touches the other counter.
RoundTripBelowMax ==
    wide.rec # 0 =>
        /\ /\ wide.unhook = U64(0)
           /\ wide.activation # UINT64_MAX
           /\ Evaluate(wide.rec, text) <=> wide.activation # U64(0)
           => /\ ActivateDeactivate(wide, text).wide = wide
              /\ ActivateDeactivate(wide, text).text = text
        /\ wide.unhook # UINT64_MAX =>
               /\ UnhookRehook(wide, text).wide = wide
               /\ UnhookRehook(wide, text).text = text

\* C38: round trip.  For every record with unhook == 0 and any activation
\* count, an activate immediately followed by a deactivate with the same
\* selector restores the activation count and the hook instruction;
\* likewise an unhook immediately followed by a rehook restores the unhook
\* count, at any unhook count.
C38_Original ==
    wide.rec # 0 =>
        /\ wide.unhook = U64(0) =>
               /\ ActivateDeactivate(wide, text).wide.activation = wide.activation
               /\ ActivateDeactivate(wide, text).text = text
        /\ UnhookRehook(wide, text).wide.unhook = wide.unhook

\* A step of dynamic_flag_list_state: the call starts its loop, hands an
\* entry to the callback, or returns (at once, when the pattern does not
\* compile).
ListStep ==
    \/ [lst' EXCEPT !.alone = lst.alone] # lst
    \/ ret'.t # NoThread /\ pc[ret'.t] = "idle" /\ pc' = pc

\* C39: list_state changes no counter, no hook instruction and no page
\* protection and never takes the patch lock: its steps leave all of them,
\* and the batch of whoever holds the lock, as they are, and the thread
\* inside it is never the owner of the lock; and when no other library
\* call has run since the listing was entered, the activation and unhook
\* values handed to the callback are the current counters of the entry's
\* record.
C39_ListReadsOnly ==
    [][ /\ ListStep =>
               /\ counts' = counts /\ text' = text /\ prot' = prot
               /\ patch_lock' = patch_lock /\ job' = job
        /\ \A t \in Threads : pc'[t] = "list" => patch_lock' # t
        /\ lst.alone /\ lst.t # NoThread /\ lst'.t = lst.t /\ lst'.i = lst.i + 1 =>
               /\ lst'.out[lst'.i].activation = counts.data[lst.acc[lst'.i]].activation
               /\ lst'.out[lst'.i].unhook = counts.data[lst.acc[lst'.i]].unhook
      ]_vars

\* Thread t1 is inside a listing that ran on its own and whose callback has
\* been handed an entry of on:printf1 with the counters two controller calls
\* gave it (activation 2 after an activate, unhook 1 after an unhook); the
\* lock is free.
C39_Witness ==
    /\ Quiescent /\ lst.alone
    /\ pc["t1"] = "list" /\ lst.t = "t1"
    /\ counts.data[2].activation = 2 /\ counts.data[2].unhook = 1
    /\ \E k \in 1 .. Len(lst.out) :
           /\ lst.out[k].name = patch_record(2).name_doc
           /\ lst.out[k].activation = 2
           /\ lst.out[k].unhook = 1

\* The section of the run sched in which the callback on record r is made:
\* the number of mprotect calls to read+write+execute up to it.
SectionOf(sched, r) ==
    LET at == CHOOSE k \in 1 .. Len(sched) : sched[k] = CbEvent(r)
    IN  Cardinality({m \in 1 .. at : sched[m].ev = "rwx"})

\* The same hooks one page up: no hook is on page 0, and first_page - 1
\* does not wrap.
OnePageUp(hooks) == [k \in 1 .. Len(hooks) |-> hooks[k] + PageSize]

\* C40: the page arithmetic of amortize is safe at the boundary.  When the
\* first hook of the list is on page 0, where first_page - 1 wraps to the
\* maximum, every record still gets the callback exactly once, in order,
\* with all pages of its hook writable; and two records share a protection
\* range only if they share one when every hook lies one page higher, where
\* nothing wraps: the wraparound only splits ranges (the ranges of the whole
\* run, read off the calls amortize is about to make).
C40_PageZeroSafe ==
    /\ amz.phase # "none"
    /\ amz.hooks # <<>>
    /\ amz.hooks[1] \div PageSize = 0
    => /\ amz.covered
       /\ \A k \in 1 .. Len(CalledOn(amz.trace)) : CalledOn(amz.trace)[k] = k
       /\ amz.phase = "done" => CalledOn(amz.trace) = LayoutList(amz.hooks)
       /\ amz.trace = <<>> =>
              \A r1, r2 \in 1 .. Len(amz.hooks) :
                  SectionOf(amz.sched, r1) = SectionOf(amz.sched, r2)
                      => SectionOf(amortize_hooks(OnePageUp(amz.hooks),
                                                  LayoutList(amz.hooks)), r1)
                             = SectionOf(amortize_hooks(OnePageUp(amz.hooks),
                                                        LayoutList(amz.hooks)), r2)

\* amortize has returned from a list of two hooks, on page 0 and on page 3:
\* each had its callback in a range of its own, both with their pages
\* writable; one page up the two share one range.
C40_Witness ==
    /\ amz.phase = "done"
    /\ amz.hooks = <<1, 3 * PageSize>>
    /\ amz.covered
    /\ CalledOn(amz.trace) = <<1, 2>>
    /\ SectionOf(amz.trace, 1) = 1 /\ SectionOf(amz.trace, 2) = 2
    /\ SectionOf(amortize_hooks(OnePageUp(amz.hooks), <<1, 2>>), 2) = 1

====
